---- MODULE Spec2Model ----
(***************************************************************************)
(* Multi-modal input fusion: the interaction arbiter                       *)
(* (src/src/core/interactionManager.ts), the voice command classifier and  *)
(* the speech recognizers (src/src/core/voiceInterface.ts,                 *)
(* whisperVoiceInterface.ts) and the gaze trackers (EyeTracker in          *)
(* src/unnamed/part_005, CoreEyeTracker in src/src/pages/Gamify.tsx).      *)
(*                                                                         *)
(* Units: time is in milliseconds (Date.now()); a confidence c of the code *)
(* is the integer 1000 * c, so 0.3 is 300 and 1.0 is 1000; a gaze          *)
(* coordinate v is the integer 6000 * v, so 0.5 is 3000.                   *)
(***************************************************************************)
EXTENDS Integers, Sequences, FiniteSets, TLC

VARIABLES
    now,                 \* Date.now()
    interactionHistory,  \* InteractionManager.interactionHistory
    lastInteraction,     \* InteractionManager.lastInteraction (NullInteraction or an event)
    dashboardHandler,    \* InteractionManager.dashboardHandler (Null or a handler)
    handlerCalls,        \* calls received by handlers: <<[handler, name]>>
    adaptiveInteraction, \* 'adaptiveInteraction' CustomEvents dispatched on document
    lastOp,              \* the latest event delivered to the arbiter and what it did
    arrivals,            \* number of events delivered to the arbiter so far
    recognized,          \* the transcript the speech collaborator hands over
    voiceEmitted,        \* the VoiceEvents VoiceInterface.emitEvent has emitted
    isListening,         \* isListening of each speech provider
    speech,              \* the utterance being heard and the results delivered for it
    eyeTracker,          \* the fields of the EyeTracker singleton
    gazeEmitted,         \* the GazeEvents EyeTracker.emitEvent has emitted
    initLog,             \* the calls of EyeTracker.initialize and what they returned
    coreEyeTracker,      \* the fields of a CoreEyeTracker
    coreEmitted,         \* the callbacks the CoreEyeTracker has invoked
    frame,               \* the latest camera frame handled and what became of it
    pc,                  \* position of startInteractionSystems: "idle", "voice" or "media"
    recognition,         \* voiceInterface's SpeechRecognition object and its timeouts
    whisper,             \* whisperVoiceInterface's recorder, fallback recognizer and timeouts
    media,               \* the media streams and elements the components hold
    lifecycle            \* whether the interaction systems have been stopped

arbiterVars == <<now, interactionHistory, lastInteraction, dashboardHandler,
                 handlerCalls, adaptiveInteraction, lastOp, arrivals>>
voiceVars == <<recognized, voiceEmitted>>
speechVars == <<isListening, speech>>
gazeVars == <<eyeTracker, gazeEmitted, initLog>>
coreVars == <<coreEyeTracker, coreEmitted>>
lifeVars == <<recognition, whisper, media, lifecycle>>
restVars == <<speechVars, gazeVars, coreVars, frame, pc, lifeVars>>
vars == <<arbiterVars, voiceVars, restVars>>

Null == "null"

\* lastInteraction = null: a record, so that it compares with events.
NullInteraction == [type |-> Null, action |-> Null, timestamp |-> 0]

\* ---------------------------------------------------------------- bounds
MaxTime == 1200
MaxEvents == 2

\* ------------------------------------------------------- program constants
HistoryCap == 50
ConfidenceFloor == 300
VoiceWindow == 1000
KeyboardWindow == 500
KeyboardConfidence == 1000

\* The action vocabulary of ActionEvent: the keys of actionMap.
Actions == {"NEXT", "BACK", "SELECT", "DASHBOARD", "REPEAT", "STOP", "START", "FALLBACK"}

\* An action string that is no key of actionMap (triggerAction takes any string;
\* the published voiceCommands table lists HELP).
Unmapped == "HELP"

Handlers == {"handleDashboardAction"}

\* Increments by which Date.now() is observed to advance between events.
Deltas == {400, 500}

\* ------------------------------------------------------------ the arbiter

\* actionMap with the entries of NEXT and BACK exchanged.
actionMapSwapped(action) ==
    CASE action = "NEXT"      -> "goBack"
      [] action = "BACK"      -> "goNext"
      [] action = "SELECT"    -> "selectCurrent"
      [] action = "DASHBOARD" -> "openDashboard"
      [] action = "REPEAT"    -> "repeatContent"
      [] action = "STOP"      -> "stopAction"
      [] action = "START"     -> "startAction"
      [] action = "FALLBACK"  -> "showFallbackControls"
      [] OTHER                -> Null

\* actionMap: the handler call each action is mapped to (Null: no entry).
actionMap(action) ==
    CASE action = "NEXT"      -> "goNext"
      [] action = "BACK"      -> "goBack"
      [] action = "SELECT"    -> "selectCurrent"
      [] action = "DASHBOARD" -> "openDashboard"
      [] action = "REPEAT"    -> "repeatContent"
      [] action = "STOP"      -> "stopAction"
      [] action = "START"     -> "startAction"
      [] action = "FALLBACK"  -> "showFallbackControls"
      [] OTHER                -> Null

\* pushHistory that evicts with pop() instead of shift().
pushHistoryPop(history, interaction) ==
    LET pushed == Append(history, interaction)
    IN  IF Len(pushed) > HistoryCap THEN SubSeq(pushed, 1, Len(pushed) - 1) ELSE pushed

\* interactionHistory.push(interaction); if (length > 50) shift()
pushHistory(history, interaction) ==
    LET pushed == Append(history, interaction)
    IN  IF Len(pushed) > HistoryCap THEN Tail(pushed) ELSE pushed

\* shouldExecute with the floor itself admitted (>= instead of >).
shouldExecuteInclusive(action, confidence) ==
    actionMap(action) # Null /\ confidence >= ConfidenceFloor

\* actionFunction && confidence > 0.3
shouldExecute(action, confidence) ==
    actionMap(action) # Null /\ confidence > ConfidenceFloor

\* hasRecentVoiceCommand with the window's end included (<= instead of <).
hasRecentVoiceCommandInclusive(history, t) ==
    \E i \in DOMAIN history :
        history[i].type = "voice" /\ (t - history[i].timestamp) <= VoiceWindow

\* hasRecentVoiceCommand(timeWindow = 1000)
hasRecentVoiceCommand(history, t) ==
    \E i \in DOMAIN history :
        history[i].type = "voice" /\ (t - history[i].timestamp) < VoiceWindow

\* hasRecentInteraction that ignores its argument and uses the default window.
hasRecentInteractionDefault(last, t, timeWindow) ==
    IF last.type = Null THEN FALSE ELSE (t - last.timestamp) < 1000

\* hasRecentInteraction(timeWindow)
hasRecentInteraction(last, t, timeWindow) ==
    IF last.type = Null THEN FALSE ELSE (t - last.timestamp) < timeWindow

\* callDashboardHandler: the calls it adds to the handlers' call log.
callDashboardHandler(handler, name) ==
    IF handler # Null THEN <<[handler |-> handler, name |-> name]>> ELSE <<>>

Interaction(type, action, t) == [type |-> type, action |-> action, timestamp |-> t]

\* What one delivery to the arbiter is recorded as in lastOp.
Op(type, action, confidence, accepted, forwarded) ==
    [seq |-> arrivals + 1, type |-> type, action |-> action,
     confidence |-> confidence, timestamp |-> now,
     accepted |-> accepted, forwarded |-> forwarded]

\* processInteraction(interaction, confidence)
processInteraction(interaction, confidence) ==
    LET forwarded == IF shouldExecute(interaction.action, confidence)
                     THEN <<actionMap(interaction.action)>> ELSE <<>>
    IN  /\ interactionHistory' = pushHistory(interactionHistory, interaction)
        /\ lastInteraction' = interaction
        /\ handlerCalls' = handlerCalls \o
               (IF forwarded = <<>> THEN <<>>
                ELSE callDashboardHandler(dashboardHandler, forwarded[1]))
        /\ adaptiveInteraction' = Append(adaptiveInteraction,
               [interaction |-> interaction, confidence |-> confidence])
        /\ lastOp' = Op(interaction.type, interaction.action, confidence, TRUE, forwarded)

\* dropInteraction that still reports the dropped event to the analytics.
dropInteractionReported(type, action, confidence) ==
    /\ lastOp' = Op(type, action, confidence, FALSE, <<>>)
    /\ adaptiveInteraction' = Append(adaptiveInteraction,
           [interaction |-> Interaction(type, action, now), confidence |-> confidence])
    /\ UNCHANGED <<interactionHistory, lastInteraction, handlerCalls>>

\* An event that is dropped: nothing but the delivery itself is recorded.
dropInteraction(type, action, confidence) ==
    /\ lastOp' = Op(type, action, confidence, FALSE, <<>>)
    /\ UNCHANGED <<interactionHistory, lastInteraction, handlerCalls, adaptiveInteraction>>

handleGazeEvent(action, confidence) ==
    /\ arrivals' = arrivals + 1
    /\ UNCHANGED <<now, dashboardHandler>>
    /\ IF hasRecentVoiceCommand(interactionHistory, now)
       THEN dropInteraction("gaze", action, confidence)
       ELSE processInteraction(Interaction("gaze", action, now), confidence)

\* handleVoiceEvent with the keyboard's cooldown check copied into it.
handleVoiceEventCooldown(action, confidence) ==
    /\ arrivals' = arrivals + 1
    /\ UNCHANGED <<now, dashboardHandler>>
    /\ IF ~hasRecentInteraction(lastInteraction, now, KeyboardWindow)
       THEN processInteraction(Interaction("voice", action, now), confidence)
       ELSE dropInteraction("voice", action, confidence)

handleVoiceEvent(action, confidence) ==
    /\ arrivals' = arrivals + 1
    /\ UNCHANGED <<now, dashboardHandler>>
    /\ processInteraction(Interaction("voice", action, now), confidence)

handleKeyboardEvent(action) ==
    /\ arrivals' = arrivals + 1
    /\ UNCHANGED <<now, dashboardHandler>>
    /\ IF ~hasRecentInteraction(lastInteraction, now, KeyboardWindow)
       THEN processInteraction(Interaction("keyboard", action, now), KeyboardConfidence)
       ELSE dropInteraction("keyboard", action, KeyboardConfidence)

triggerAction(action) == handleKeyboardEvent(action)

\* registerDashboardHandler that replays the history into the new handler.
registerDashboardHandlerReplay(handler) ==
    /\ dashboardHandler' = handler
    /\ handlerCalls' = handlerCalls \o
           [i \in DOMAIN interactionHistory |->
               [handler |-> handler, name |-> actionMap(interactionHistory[i].action)]]
    /\ UNCHANGED <<now, interactionHistory, lastInteraction,
                   adaptiveInteraction, lastOp, arrivals>>

registerDashboardHandler(handler) ==
    /\ dashboardHandler' = handler
    /\ UNCHANGED <<now, interactionHistory, lastInteraction, handlerCalls,
                   adaptiveInteraction, lastOp, arrivals>>

\* Date.now() advances.
Tick(d) ==
    /\ now + d <= MaxTime
    /\ now' = now + d
    /\ UNCHANGED <<interactionHistory, lastInteraction, dashboardHandler,
                   handlerCalls, adaptiveInteraction, lastOp, arrivals>>

\* ------------------------------------------------------ the arbiter's inputs
NoOp == [seq |-> 0, type |-> Null, action |-> Null, confidence |-> 0,
         timestamp |-> 0, accepted |-> FALSE, forwarded |-> <<>>]

\* Events the gaze estimator delivers (EyeTracker emits with 0.7, 0.8 or 1.0).
GazeInputs ==
    {[action |-> "NEXT", confidence |-> 800],
     [action |-> "BACK", confidence |-> 700],
     [action |-> "FALLBACK", confidence |-> 1000]}

\* Events the voice components deliver: classified commands carry the
\* recognizer's confidence, the FALLBACK signal carries confidence 0.
VoiceInputs ==
    {[action |-> "REPEAT", confidence |-> 900],
     [action |-> "NEXT", confidence |-> 300],
     [action |-> "STOP", confidence |-> 301],
     [action |-> "FALLBACK", confidence |-> 0]}

\* Actions passed to triggerAction (any string).
KeyboardInputs == Actions \cup {Unmapped}

Register == \E h \in Handlers : dashboardHandler = Null /\ registerDashboardHandler(h)
Advance == \E d \in Deltas : Tick(d)

InitArbiter ==
    /\ now = 0
    /\ interactionHistory = <<>>
    /\ lastInteraction = NullInteraction
    /\ dashboardHandler = Null
    /\ handlerCalls = <<>>
    /\ adaptiveInteraction = <<>>
    /\ lastOp = NoOp
    /\ arrivals = 0

\* ------------------------------------------------- the voice command classifier
\* A string of the code is the sequence of its characters.
Lowercase == <<"a", "b", "c", "d", "e", "f", "g", "h", "i", "j", "k", "l", "m",
               "n", "o", "p", "q", "r", "s", "t", "u", "v", "w", "x", "y", "z">>
Uppercase == <<"A", "B", "C", "D", "E", "F", "G", "H", "I", "J", "K", "L", "M",
               "N", "O", "P", "Q", "R", "S", "T", "U", "V", "W", "X", "Y", "Z">>
Digits == {"0", "1", "2", "3", "4", "5", "6", "7", "8", "9"}
Range(f) == {f[i] : i \in DOMAIN f}
Letters == Range(Lowercase) \cup Range(Uppercase)
WordChars == Letters \cup Digits \cup {"_"}
SpaceChars == {" ", "\t", "\n", "\r"}
LowerOf == [c \in Range(Uppercase) |->
               Lowercase[CHOOSE k \in DOMAIN Uppercase : Uppercase[k] = c]]

\* \w and \s of the regular expression /[^\w\s]/g
isWordChar(c) == c \in WordChars
isSpace(c) == c \in SpaceChars

\* command.replace(/[^\w\s]/g, '')
stripPunctuation(str) == SelectSeq(str, LAMBDA c : isWordChar(c) \/ isSpace(c))

\* String.prototype.toLowerCase
toLowerCase(str) ==
    [i \in DOMAIN str |-> IF str[i] \in DOMAIN LowerOf THEN LowerOf[str[i]] ELSE str[i]]

\* String.prototype.trim
RECURSIVE trimStart(_)
trimStart(str) ==
    IF str # <<>> /\ isSpace(Head(str)) THEN trimStart(Tail(str)) ELSE str

RECURSIVE trimEnd(_)
trimEnd(str) ==
    IF str # <<>> /\ isSpace(str[Len(str)])
    THEN trimEnd(SubSeq(str, 1, Len(str) - 1)) ELSE str

trim(str) == trimEnd(trimStart(str))

\* String.prototype.includes
includes(str, part) ==
    \E i \in 1..(Len(str) - Len(part) + 1) : SubSeq(str, i, i + Len(part) - 1) = part

\* String.prototype.split(' '): the pieces between single spaces, empty ones kept.
RECURSIVE split(_)
split(str) ==
    LET spaces == {i \in DOMAIN str : str[i] = " "}
    IN  IF spaces = {} THEN <<str>>
        ELSE LET first == CHOOSE i \in spaces : \A j \in spaces : i <= j
             IN  <<SubSeq(str, 1, first - 1)>> \o split(SubSeq(str, first + 1, Len(str)))

\* const exactCommands = { ... }: its own properties, in source order.
exactCommands ==
    <<[phrase |-> <<"n", "e", "x", "t">>, action |-> "NEXT"],
      [phrase |-> <<"g", "o", " ", "n", "e", "x", "t">>, action |-> "NEXT"],
      [phrase |-> <<"f", "o", "r", "w", "a", "r", "d">>, action |-> "NEXT"],
      [phrase |-> <<"c", "o", "n", "t", "i", "n", "u", "e">>, action |-> "NEXT"],
      [phrase |-> <<"b", "a", "c", "k">>, action |-> "BACK"],
      [phrase |-> <<"g", "o", " ", "b", "a", "c", "k">>, action |-> "BACK"],
      [phrase |-> <<"p", "r", "e", "v", "i", "o", "u", "s">>, action |-> "BACK"],
      [phrase |-> <<"r", "e", "t", "u", "r", "n">>, action |-> "BACK"],
      [phrase |-> <<"s", "e", "l", "e", "c", "t">>, action |-> "SELECT"],
      [phrase |-> <<"c", "h", "o", "o", "s", "e">>, action |-> "SELECT"],
      [phrase |-> <<"p", "i", "c", "k">>, action |-> "SELECT"],
      [phrase |-> <<"c", "o", "m", "p", "l", "e", "t", "e">>, action |-> "SELECT"],
      [phrase |-> <<"d", "a", "s", "h", "b", "o", "a", "r", "d">>, action |-> "DASHBOARD"],
      [phrase |-> <<"m", "e", "n", "u">>, action |-> "DASHBOARD"],
      [phrase |-> <<"h", "o", "m", "e">>, action |-> "DASHBOARD"],
      [phrase |-> <<"m", "a", "i", "n">>, action |-> "DASHBOARD"],
      [phrase |-> <<"r", "e", "p", "e", "a", "t">>, action |-> "REPEAT"],
      [phrase |-> <<"a", "g", "a", "i", "n">>, action |-> "REPEAT"],
      [phrase |-> <<"s", "a", "y", " ", "a", "g", "a", "i", "n">>, action |-> "REPEAT"],
      [phrase |-> <<"s", "t", "o", "p">>, action |-> "STOP"],
      [phrase |-> <<"h", "a", "l", "t">>, action |-> "STOP"],
      [phrase |-> <<"p", "a", "u", "s", "e">>, action |-> "STOP"],
      [phrase |-> <<"q", "u", "i", "t">>, action |-> "STOP"],
      [phrase |-> <<"e", "x", "i", "t">>, action |-> "STOP"],
      [phrase |-> <<"s", "t", "a", "r", "t">>, action |-> "START"],
      [phrase |-> <<"b", "e", "g", "i", "n">>, action |-> "START"],
      [phrase |-> <<"r", "e", "s", "u", "m", "e">>, action |-> "START"],
      [phrase |-> <<"l", "i", "s", "t", "e", "n">>, action |-> "START"]>>

\* Names every object literal inherits from Object.prototype that survive
\* toLowerCase: exactCommands[name] is then an object, not a command.
InheritedProperties ==
    {[phrase |-> <<"c", "o", "n", "s", "t", "r", "u", "c", "t", "o", "r">>, action |-> "function Object() { [native code] }"],
     [phrase |-> <<"_", "_", "p", "r", "o", "t", "o", "_", "_">>, action |-> "[object Object]"]}

\* exactCommands[key as keyof typeof exactCommands]: Null stands for undefined.
lookupCommand(key) ==
    IF \E i \in DOMAIN exactCommands : exactCommands[i].phrase = key
    THEN exactCommands[CHOOSE i \in DOMAIN exactCommands : exactCommands[i].phrase = key].action
    ELSE IF \E p \in InheritedProperties : p.phrase = key
    THEN (CHOOSE p \in InheritedProperties : p.phrase = key).action
    ELSE Null

READ == <<"r", "e", "a", "d">>
PartialPenalty == 600

VoiceEvent(action, command, confidence) ==
    [action |-> action, command |-> command, confidence |-> confidence]

\* command.replace(/[^\w\s]/g, '').toLowerCase().trim()
cleanCommand(command) == trim(toLowerCase(stripPunctuation(command)))

\* for (const word of words) if (exactCommands[word]) { emit; return }
partialMatch(clean, confidence) ==
    LET words == split(clean)
        hits == {i \in DOMAIN words : lookupCommand(words[i]) # Null}
    IN  IF hits = {} THEN <<>>
        ELSE LET first == CHOOSE i \in hits : \A j \in hits : i <= j
             IN  <<VoiceEvent(lookupCommand(words[first]), clean,
                              (confidence * PartialPenalty) \div 1000)>>

\* processCommand with the read check moved after the phrase matching.
processCommandReadLast(command, confidence) ==
    LET clean == cleanCommand(command)
    IN  IF lookupCommand(clean) # Null
        THEN <<VoiceEvent(lookupCommand(clean), clean, confidence)>>
        ELSE IF partialMatch(clean, confidence) # <<>>
        THEN partialMatch(clean, confidence)
        ELSE IF includes(clean, READ)
        THEN <<VoiceEvent("REPEAT", clean, confidence)>>
        ELSE <<>>

\* processCommand with the token match tried before the exact match.
processCommandTokensFirst(command, confidence) ==
    LET clean == cleanCommand(command)
    IN  IF includes(clean, READ)
        THEN <<VoiceEvent("REPEAT", clean, confidence)>>
        ELSE IF partialMatch(clean, confidence) # <<>>
        THEN partialMatch(clean, confidence)
        ELSE IF lookupCommand(clean) # Null
        THEN <<VoiceEvent(lookupCommand(clean), clean, confidence)>>
        ELSE <<>>

\* VoiceInterface.processCommand: the events it emits, in order.
processCommand(command, confidence) ==
    LET clean == cleanCommand(command)
    IN  IF includes(clean, READ)
        THEN <<VoiceEvent("REPEAT", clean, confidence)>>
        ELSE IF lookupCommand(clean) # Null
        THEN <<VoiceEvent(lookupCommand(clean), clean, confidence)>>
        ELSE partialMatch(clean, confidence)

\* ------------------------------------------- the whisper provider's classifier
\* const exactCommands = { ... } of WhisperVoiceInterface.processCommand.
whisperExactCommands ==
    <<[phrase |-> <<"n", "e", "x", "t">>, action |-> "NEXT"],
      [phrase |-> <<"g", "o", " ", "n", "e", "x", "t">>, action |-> "NEXT"],
      [phrase |-> <<"f", "o", "r", "w", "a", "r", "d">>, action |-> "NEXT"],
      [phrase |-> <<"c", "o", "n", "t", "i", "n", "u", "e">>, action |-> "NEXT"],
      [phrase |-> <<"b", "a", "c", "k">>, action |-> "BACK"],
      [phrase |-> <<"g", "o", " ", "b", "a", "c", "k">>, action |-> "BACK"],
      [phrase |-> <<"p", "r", "e", "v", "i", "o", "u", "s">>, action |-> "BACK"],
      [phrase |-> <<"r", "e", "t", "u", "r", "n">>, action |-> "BACK"],
      [phrase |-> <<"s", "e", "l", "e", "c", "t">>, action |-> "SELECT"],
      [phrase |-> <<"c", "h", "o", "o", "s", "e">>, action |-> "SELECT"],
      [phrase |-> <<"p", "i", "c", "k">>, action |-> "SELECT"],
      [phrase |-> <<"c", "o", "m", "p", "l", "e", "t", "e">>, action |-> "SELECT"],
      [phrase |-> <<"d", "a", "s", "h", "b", "o", "a", "r", "d">>, action |-> "DASHBOARD"],
      [phrase |-> <<"m", "e", "n", "u">>, action |-> "DASHBOARD"],
      [phrase |-> <<"h", "o", "m", "e">>, action |-> "DASHBOARD"],
      [phrase |-> <<"m", "a", "i", "n">>, action |-> "DASHBOARD"],
      [phrase |-> <<"r", "e", "p", "e", "a", "t">>, action |-> "REPEAT"],
      [phrase |-> <<"a", "g", "a", "i", "n">>, action |-> "REPEAT"],
      [phrase |-> <<"s", "a", "y", " ", "a", "g", "a", "i", "n">>, action |-> "REPEAT"],
      [phrase |-> <<"s", "t", "o", "p">>, action |-> "STOP"],
      [phrase |-> <<"h", "a", "l", "t">>, action |-> "STOP"],
      [phrase |-> <<"p", "a", "u", "s", "e">>, action |-> "STOP"],
      [phrase |-> <<"q", "u", "i", "t">>, action |-> "STOP"],
      [phrase |-> <<"e", "x", "i", "t">>, action |-> "STOP"],
      [phrase |-> <<"s", "t", "a", "r", "t">>, action |-> "START"],
      [phrase |-> <<"b", "e", "g", "i", "n">>, action |-> "START"],
      [phrase |-> <<"r", "e", "s", "u", "m", "e">>, action |-> "START"],
      [phrase |-> <<"l", "i", "s", "t", "e", "n">>, action |-> "START"]>>

\* exactCommands[key as keyof typeof exactCommands] in the whisper provider.
whisperLookupCommand(key) ==
    IF \E i \in DOMAIN whisperExactCommands : whisperExactCommands[i].phrase = key
    THEN whisperExactCommands[CHOOSE i \in DOMAIN whisperExactCommands :
                                 whisperExactCommands[i].phrase = key].action
    ELSE IF \E p \in InheritedProperties : p.phrase = key
    THEN (CHOOSE p \in InheritedProperties : p.phrase = key).action
    ELSE Null

\* for (const word of words) if (exactCommands[word]) { emit; return }
whisperPartialMatch(clean, confidence) ==
    LET words == split(clean)
        hits == {i \in DOMAIN words : whisperLookupCommand(words[i]) # Null}
    IN  IF hits = {} THEN <<>>
        ELSE LET first == CHOOSE i \in hits : \A j \in hits : i <= j
             IN  <<VoiceEvent(whisperLookupCommand(words[first]), clean,
                              (confidence * PartialPenalty) \div 1000)>>

\* whisperProcessCommand with the token match emitted at full confidence.
whisperProcessCommandNoPenalty(command, confidence) ==
    LET clean == cleanCommand(command)
    IN  IF includes(clean, READ)
        THEN <<VoiceEvent("REPEAT", clean, confidence)>>
        ELSE IF whisperLookupCommand(clean) # Null
        THEN <<VoiceEvent(whisperLookupCommand(clean), clean, confidence)>>
        ELSE whisperPartialMatch(clean, (1000 * confidence) \div PartialPenalty)

\* WhisperVoiceInterface.processCommand: the events it emits, in order.
whisperProcessCommand(command, confidence) ==
    LET clean == cleanCommand(command)
    IN  IF includes(clean, READ)
        THEN <<VoiceEvent("REPEAT", clean, confidence)>>
        ELSE IF whisperLookupCommand(clean) # Null
        THEN <<VoiceEvent(whisperLookupCommand(clean), clean, confidence)>>
        ELSE whisperPartialMatch(clean, confidence)

\* ------------------------------------- recognizers, recorder and streams
\* The SpeechRecognition object of voiceInterface and the timeouts around it.
\* state is "running" after start(), "ending" after stop() or an error until
\* the end event, and "idle" otherwise; start() throws InvalidStateError
\* unless the recognizer is idle. restartTimers and startTimers count the
\* pending timeouts that call restartRecognition and recognition.start().
\* by names the caller of the latest start(); denied tells whether a
\* not-allowed error has come since the latest startListening().
NewRecognition ==
    [state |-> "idle", starts |-> 0, stops |-> 0, by |-> Null, denied |-> FALSE,
     restartTimers |-> 0, startTimers |-> 0]

\* recognition.start()
recognitionStart(r, by) ==
    [r EXCEPT !.starts = @ + 1,
              !.by = by,
              !.state = IF @ = "idle" THEN "running" ELSE @]

\* recognition.stop()
recognitionStop(r) ==
    [r EXCEPT !.stops = @ + 1,
              !.state = IF @ = "running" THEN "ending" ELSE @]

\* VoiceInterface.startListening(): the recognizer after the call ...
voiceStartListening(supported, r) ==
    IF supported
    THEN [recognitionStart(r, "startListening") EXCEPT !.denied = FALSE]
    ELSE r

\* ... and whether the call set isListening (start() did not throw).
voiceStarted(supported, r) == supported /\ r.state = "idle"

\* VoiceInterface.stopListening(): the recognizer after the call.
voiceStopListening(listening, r) ==
    IF listening THEN recognitionStop(r) ELSE r

\* VoiceInterface.restartRecognition(): the recognizer after the call.
restartRecognition(listening, r) ==
    IF listening
    THEN [recognitionStop(r) EXCEPT !.startTimers = @ + 1]
    ELSE r

\* The recorder and timers of whisperVoiceInterface. engine is what
\* startListening found to listen with: "whisper" (the pipeline is loaded),
\* "webSpeech" (the fallback recognizer) or "none" (neither exists).
\* recorder is mediaRecorder.state
\* ("none" before a recorder exists); recordingTimeout tells whether the
\* 2-second chunk timeout is pending, resumeTimers counts the pending
\* 100 ms timeouts that resume recording, onstops the pending onstop
\* callbacks and transcribing the transcriptions in flight.
NewWhisper ==
    [engine |-> Null, recorder |-> "none", recorderStops |-> 0,
     recordingTimeout |-> FALSE, resumeTimers |-> 0,
     onstops |-> 0, transcribing |-> 0,
     webSpeech |-> "idle", webSpeechStops |-> 0]

\* mediaRecorder.stop(): the recorder becomes inactive and its onstop
\* callback is queued.
recorderStop(w) ==
    [w EXCEPT !.recorder = "inactive",
              !.recorderStops = @ + 1,
              !.onstops = @ + 1]

\* WhisperVoiceInterface.startListening() once getUserMedia has resolved.
\* ready is what the call finds: "whisper" when isInitialized and the pipeline
\* are set (startWhisperRecording(stream) runs), "webSpeech" when the
\* fallback recognizer exists (it is started), and "none" while the model is
\* still loading or loading failed without a SpeechRecognition constructor:
\* then nothing is started.
whisperStartListening(ready, w) ==
    IF ready = "whisper"
    THEN [w EXCEPT !.engine = "whisper",
                   !.recorder = "recording",
                   !.recordingTimeout = TRUE]
    ELSE IF ready = "webSpeech"
    THEN [w EXCEPT !.engine = "webSpeech",
                   !.webSpeech = "running"]
    ELSE [w EXCEPT !.engine = "none"]

\* WhisperVoiceInterface.stopListening(): the timeouts are cleared, a
\* recorder that is not inactive is stopped, the fallback recognizer is
\* stopped if there is one. The stream is left as it is.
whisperStopListening(listening, w) ==
    IF ~listening THEN w
    ELSE LET cleared == [w EXCEPT !.recordingTimeout = FALSE]
             halted == IF w.recorder = "recording" THEN recorderStop(cleared)
                       ELSE cleared
         IN  IF w.engine = "webSpeech"
             THEN [halted EXCEPT !.webSpeech = "idle", !.webSpeechStops = @ + 1]
             ELSE halted

\* The media the components hold: the live tracks of the streams EyeTracker
\* and whisperVoiceInterface have obtained, whether EyeTracker's video
\* element is in the document, the live tracks of the stream attached to the
\* CoreEyeTracker's video element, and the calls of its camera.stop().
NoMedia ==
    [camera |-> 0, video |-> FALSE, microphone |-> 0, core |-> 0, coreCameraStops |-> 0]

\* startInteractionSystems / stopInteractionSystems: whether the systems
\* have been stopped since they were last started, the calls of
\* stopInteractionSystems and of CoreEyeTracker.stop, the number of keys
\* pressed and the last of them. coreStart is the position of a call of
\* CoreEyeTracker.start(): "none", "pending" while it awaits getUserMedia,
\* and "cancelled" when stop() has been called while it was pending.
NewLifecycle ==
    [stopped |-> FALSE, stopCalls |-> 0, coreStops |-> 0, keys |-> 0, key |-> Null,
     coreStart |-> "none"]

InitLife ==
    /\ recognition = NewRecognition
    /\ whisper = NewWhisper
    /\ media = NoMedia
    /\ lifecycle = NewLifecycle

\* ------------------------------------------------- the speech recognizers
\* The two speech providers the arbiter subscribes to.
Providers == {"voiceInterface", "whisperVoiceInterface"}

\* result[0].confidence of a result that carries no confidence
Undefined == -1
DefaultConfidence == 800
InterimGate == 700
RestartGate == 800

\* result[0].confidence || 0.8
orDefault(reported) ==
    IF reported = Undefined \/ reported = 0 THEN DefaultConfidence ELSE reported

\* if (result.isFinal || confidence > 0.7)
isProcessed(isFinal, confidence) == isFinal \/ confidence > InterimGate

\* if (!result.isFinal && confidence > 0.8) this.restartRecognition()
\* (the Web Speech fallback of the Whisper interface never restarts)
restartsRecognition(provider, isFinal, confidence) ==
    provider = "voiceInterface" /\ ~isFinal /\ confidence > RestartGate

\* A SpeechRecognitionResult handed to onresult.
Result(transcript, confidence, isFinal) ==
    [transcript |-> transcript, confidence |-> confidence, isFinal |-> isFinal]

\* What a provider has delivered of the utterance being heard:
\* nothing yet ("heard"), an interim result ("interim"), or all of it ("done").
NoSpeech ==
    [utterances |-> 0,
     transcript |-> <<>>,
     stage |-> [p \in Providers |-> "done"],
     callsBefore |-> 0,
     provider |-> Null,
     result |-> Result(<<>>, 0, FALSE),
     results |-> 0]

\* Dashboard.handleDashboardAction for the calls that reach the speech
\* providers: 'startAction' starts both, 'stopAction' stops both. r is the
\* recognizer of voiceInterface, whose start() must not throw.
handleStartStopAction(name, listening, r) ==
    IF name = "startAction"
    THEN [p \in Providers |->
             IF p = "voiceInterface" THEN listening[p] \/ voiceStarted(TRUE, r) ELSE TRUE]
    ELSE IF name = "stopAction" THEN [p \in Providers |-> FALSE]
    ELSE listening

\* What the events out, emitted by a voice component's processCommand, leave
\* behind outside the arbiter: when the arbiter forwards startAction or
\* stopAction, what the Dashboard's handleStartAction and handleStopAction do
\* to the providers. ready tells whether the Whisper pipeline is loaded when
\* whisperVoiceInterface.startListening() looks.
heard(out, ready) ==
    LET called == /\ out # <<>>
                  /\ dashboardHandler # Null
                  /\ shouldExecute(out[1].action, out[1].confidence)
        name == IF called THEN actionMap(out[1].action) ELSE Null
        whisperStarts == name = "startAction" /\ ~isListening["whisperVoiceInterface"]
    IN  [out |-> out,
         listening |-> handleStartStopAction(name, isListening, recognition),
         recognition |->
             IF name = "stopAction"
             THEN voiceStopListening(isListening["voiceInterface"], recognition)
             ELSE IF name = "startAction" THEN voiceStartListening(TRUE, recognition)
             ELSE recognition,
         whisper |->
             IF name = "stopAction"
             THEN whisperStopListening(isListening["whisperVoiceInterface"], whisper)
             ELSE IF whisperStarts THEN whisperStartListening(ready, whisper)
             ELSE whisper,
         media |-> IF whisperStarts THEN [media EXCEPT !.microphone = @ + 1] ELSE media]

\* The onresult handler of a provider for one result: the transcript is
\* lowercased and trimmed, the confidence defaulted, and the result classified
\* if it is final or confident; each event emitted reaches the arbiter, whose
\* handler call (if any) runs the Dashboard's start and stop actions; a
\* confident interim result then restarts the recognizer.
onresult(provider, result, finalFollows, ready) ==
    \E out \in {IF isProcessed(result.isFinal, orDefault(result.confidence))
                THEN processCommand(trim(toLowerCase(result.transcript)),
                                    orDefault(result.confidence))
                ELSE <<>>} :
        LET confidence == orDefault(result.confidence)
            after == heard(out, ready)
            listening == after.listening
            restarts == restartsRecognition(provider, result.isFinal, confidence)
            stage == IF result.isFinal \/ ~listening[provider] THEN "done"
                     ELSE IF restarts /\ ~finalFollows THEN "done"
                     ELSE "interim"
        IN  /\ voiceEmitted' = voiceEmitted \o out
            /\ IF out = <<>>
               THEN UNCHANGED arbiterVars
               ELSE handleVoiceEvent(out[1].action, out[1].confidence)
            /\ isListening' = listening
            /\ recognition' =
                   IF restarts
                   THEN restartRecognition(listening["voiceInterface"], after.recognition)
                   ELSE after.recognition
            /\ whisper' = after.whisper
            /\ media' = after.media
            /\ speech' = [speech EXCEPT !.stage =
                              [p \in Providers |->
                                  IF p = provider THEN stage
                                  ELSE IF listening[p] THEN speech.stage[p] ELSE "done"],
                            !.provider = provider,
                            !.result = result,
                            !.results = speech.results + 1]
            /\ UNCHANGED recognized

InitSpeech ==
    /\ isListening = [p \in Providers |-> FALSE]
    /\ speech = NoSpeech

\* ------------------------------------------------------ the gaze estimator
\* Coordinates: a coordinate v of the code is the integer Unit * v, so 0.5 is
\* 3000 and the zone threshold 0.15 is 900; arithmetic is exact.
Unit == 6000
Half == 3000
FallbackConfidence == 1000

Point(x, y) == [x |-> x, y |-> y]
GazeEvent(action, zone, confidence) ==
    [action |-> action, zone |-> zone, confidence |-> confidence]

\* The variables the mousemove listener of setupMouseSimulation closes over,
\* and the last mouse position it saw in percent of the window. emitted
\* tells whether lastEmitTime has been set: it starts at 0, which Date.now()
\* is always more than the throttle and reset times away from.
NewMouse ==
    [lastZone |-> "NONE", lastEmitTime |-> 0, emitted |-> FALSE,
     isMouseActive |-> FALSE, x |-> 50, y |-> 50, moves |-> 0]

\* The fields of EyeTracker after construction; mouseSimulations counts the
\* mousemove listeners setupMouseSimulation has added, processing tells
\* whether the processFrame loop is scheduled.
NewEyeTracker ==
    [isInitialized |-> FALSE,
     isCalibrated |-> FALSE,
     gazeHistory |-> <<>>,
     currentZone |-> "NONE",
     calibrationData |-> [centerX |-> Half, centerY |-> Half],
     mockMode |-> FALSE,
     mouseSimulations |-> 0,
     mouse |-> NewMouse,
     processing |-> FALSE]

\* EyeTracker.emitEvent: every subscriber is called; the arbiter subscribes
\* with handleGazeEvent.
emitEvent(event) ==
    /\ gazeEmitted' = Append(gazeEmitted, event)
    /\ handleGazeEvent(event.action, event.confidence)

\* EyeTracker.initialize(): available tells whether the page is served over
\* HTTPS and getUserMedia grants the camera. Without either, the tracker
\* enters mock mode, adds the mouse simulation, emits FALLBACK and returns
\* false; processFrame returns at once in mock mode. With both, the camera
\* stream is obtained and attached to a new video element in the document.
initialize(available) ==
    /\ initLog' = Append(initLog, [available |-> available, returned |-> available])
    /\ IF available
       THEN /\ eyeTracker' = [eyeTracker EXCEPT !.isInitialized = TRUE,
                                                !.mockMode = FALSE,
                                                !.processing = TRUE]
            /\ media' = [media EXCEPT !.camera = @ + 1, !.video = TRUE]
            /\ UNCHANGED <<gazeEmitted, arbiterVars>>
       ELSE /\ eyeTracker' = [eyeTracker EXCEPT !.mockMode = TRUE,
                                                !.isInitialized = TRUE,
                                                !.processing = FALSE,
                                                !.mouseSimulations = @ + 1]
            /\ emitEvent(GazeEvent("FALLBACK", "NONE", FallbackConfidence))
            /\ UNCHANGED media

\* -- EyeTracker: one frame
GazeDepth == 5
ZoneThreshold == 900
ResultsConfidence == 800
FrameConfidence == 700

\* The landmark indices calculateGazePoint reads.
LeftEyeIndex == 33
RightEyeIndex == 263
NoseTipIndex == 1

\* results.multiFaceLandmarks of one frame: faces is its length, count the
\* number of landmarks of the first face; landmarks[i] exists iff i < count.
hasLandmark(results, index) == results.faces > 0 /\ index < results.count

RECURSIVE SumX(_)
SumX(points) == IF points = <<>> THEN 0 ELSE Head(points).x + SumX(Tail(points))

RECURSIVE SumY(_)
SumY(points) == IF points = <<>> THEN 0 ELSE Head(points).y + SumY(Tail(points))

\* EyeTracker.calculateGazePoint: <<>> stands for null.
calculateGazePoint(landmarks) ==
    IF ~(/\ hasLandmark(landmarks, LeftEyeIndex)
         /\ hasLandmark(landmarks, RightEyeIndex)
         /\ hasLandmark(landmarks, NoseTipIndex))
    THEN <<>>
    ELSE LET eyeCenterX == (landmarks.leftEye.x + landmarks.rightEye.x) \div 2
             eyeCenterY == (landmarks.leftEye.y + landmarks.rightEye.y) \div 2
         IN  <<Point(eyeCenterX + (eyeCenterX - landmarks.noseTip.x) * 2,
                     eyeCenterY + (eyeCenterY - landmarks.noseTip.y) * 2)>>

\* updateGazeHistory that evicts the newest sample instead of the oldest.
updateGazeHistoryDropNewest(history, point) ==
    IF Len(history) + 1 > GazeDepth THEN history ELSE Append(history, point)

\* EyeTracker.updateGazeHistory: push, then shift when longer than 5.
updateGazeHistory(history, point) ==
    LET pushed == Append(history, point)
    IN  IF Len(pushed) > GazeDepth THEN Tail(pushed) ELSE pushed

\* EyeTracker.getSmoothedGaze
getSmoothedGaze(history) ==
    IF Len(history) = 0 THEN Point(Half, Half)
    ELSE Point(SumX(history) \div Len(history), SumY(history) \div Len(history))

abs(v) == IF v < 0 THEN -v ELSE v

\* EyeTracker.determineGazeZone
determineGazeZone(gaze, calibrationData) ==
    IF gaze.y > calibrationData.centerY + ZoneThreshold THEN "DOWN"
    ELSE IF gaze.x < calibrationData.centerX - ZoneThreshold THEN "LEFT"
    ELSE IF gaze.x > calibrationData.centerX + ZoneThreshold THEN "RIGHT"
    ELSE IF /\ abs(gaze.x - calibrationData.centerX) < ZoneThreshold
            /\ abs(gaze.y - calibrationData.centerY) < ZoneThreshold THEN "CENTER"
    ELSE "NONE"

\* EyeTracker.mapZoneToAction
mapZoneToAction(zone) ==
    CASE zone = "LEFT" -> "BACK"
      [] zone = "RIGHT" -> "NEXT"
      [] zone = "CENTER" -> "SELECT"
      [] zone = "DOWN" -> "DASHBOARD"
      [] OTHER -> "FALLBACK"

\* The common end of onResults and processFrame: push, smooth, classify, and
\* emit when the zone differs from currentZone and is not NONE.
trackGaze(gazePoint, confidence) ==
    LET history == updateGazeHistory(eyeTracker.gazeHistory, gazePoint)
        zone == determineGazeZone(getSmoothedGaze(history), eyeTracker.calibrationData)
    IN  IF zone # eyeTracker.currentZone /\ zone # "NONE"
        THEN /\ eyeTracker' = [eyeTracker EXCEPT !.gazeHistory = history,
                                                 !.currentZone = zone]
             /\ emitEvent(GazeEvent(mapZoneToAction(zone), zone, confidence))
        ELSE /\ eyeTracker' = [eyeTracker EXCEPT !.gazeHistory = history]
             /\ UNCHANGED <<gazeEmitted, arbiterVars>>

\* EyeTracker.onResults
onResults(results) ==
    IF results.faces = 0 \/ calculateGazePoint(results) = <<>>
    THEN UNCHANGED <<eyeTracker, gazeEmitted, arbiterVars>>
    ELSE trackGaze(calculateGazePoint(results)[1], ResultsConfidence)

\* processFrame of startVideoProcessing: the gaze is the centre of the canvas.
processFrame ==
    IF ~eyeTracker.isInitialized \/ eyeTracker.mockMode
    THEN /\ eyeTracker' = [eyeTracker EXCEPT !.processing = FALSE]
         /\ UNCHANGED <<gazeEmitted, arbiterVars>>
    ELSE trackGaze(Point(Half, Half), FrameConfidence)

\* calibrate taking the newest sample instead of the smoothed point.
calibrateNewest ==
    IF Len(eyeTracker.gazeHistory) > 0
    THEN eyeTracker' = [eyeTracker EXCEPT
             !.calibrationData =
                 [centerX |-> eyeTracker.gazeHistory[Len(eyeTracker.gazeHistory)].x,
                  centerY |-> eyeTracker.gazeHistory[Len(eyeTracker.gazeHistory)].y],
             !.isCalibrated = TRUE]
    ELSE UNCHANGED eyeTracker

\* EyeTracker.calibrate
calibrate ==
    IF Len(eyeTracker.gazeHistory) > 0
    THEN eyeTracker' = [eyeTracker EXCEPT
             !.calibrationData = [centerX |-> getSmoothedGaze(eyeTracker.gazeHistory).x,
                                  centerY |-> getSmoothedGaze(eyeTracker.gazeHistory).y],
             !.isCalibrated = TRUE]
    ELSE UNCHANGED eyeTracker

\* -- CoreEyeTracker: one frame
IrisCount == 478
ZoneHigh == 3900
ZoneLow == 2100
DefaultSmoothing == 3
Tenths == 10

\* A configuration: the sensitivities are in tenths (3.5 is 35).
Config(sx, sy, smoothing) ==
    [sensitivity |-> [x |-> sx, y |-> sy], smoothing |-> smoothing]

\* The fields new CoreEyeTracker(config) sets.
NewCoreEyeTracker(config) ==
    [constructed |-> TRUE,
     config |-> config,
     isTracking |-> FALSE,
     isInitialized |-> FALSE,
     gazeHistory |-> <<>>,
     gazeHistorySize |-> config.smoothing,
     smoothedGaze |-> Point(Half, Half),
     currentZone |-> Null,
     lastGazePoint |-> <<>>]

\* No CoreEyeTracker has been constructed.
NoCoreEyeTracker ==
    [NewCoreEyeTracker(Config(35, 25, DefaultSmoothing)) EXCEPT !.constructed = FALSE]

\* CoreEyeTracker.extractIrisData: the centroids of the two irises, or <<>>
\* (null) when the iris landmarks 468..477 are missing.
extractIrisData(landmarks) ==
    IF landmarks.count < IrisCount THEN <<>>
    ELSE <<[leftIris |-> landmarks.leftIris, rightIris |-> landmarks.rightIris]>>

\* CoreEyeTracker.calculateGazeFromIris: amplify about 0.5, then clamp.
calculateGazeFromIris(irisData, sensitivity) ==
    LET avgIrisX == (irisData.leftIris.x + irisData.rightIris.x) \div 2
        avgIrisY == (irisData.leftIris.y + irisData.rightIris.y) \div 2
        gazeX == ((avgIrisX - Half) * sensitivity.x) \div Tenths + Half
        gazeY == ((avgIrisY - Half) * sensitivity.y) \div Tenths + Half
        clamp(v) == IF v < 0 THEN 0 ELSE IF v > Unit THEN Unit ELSE v
    IN  Point(clamp(gazeX), clamp(gazeY))

\* CoreEyeTracker.applySmoothingFilter: the history after the push.
applySmoothingFilter(history, size, gazePoint) ==
    LET pushed == Append(history, gazePoint)
    IN  IF Len(pushed) > size THEN Tail(pushed) ELSE pushed

\* ... and the mean it stores in smoothedGaze.
smoothedOf(history) ==
    Point(SumX(history) \div Len(history), SumY(history) \div Len(history))

\* CoreEyeTracker.determineGazeZone
coreDetermineGazeZone(gazePoint) ==
    IF gazePoint.y > ZoneHigh THEN "DOWN"
    ELSE IF gazePoint.x > ZoneHigh THEN "LEFT"
    ELSE IF gazePoint.x < ZoneLow THEN "RIGHT"
    ELSE "CENTER"

\* The callbacks a CoreEyeTracker invokes.
FaceDetected(detected) == [callback |-> "onFaceDetected", detected |-> detected]
ZoneChange(zone, previousZone) ==
    [callback |-> "onZoneChange", zone |-> zone, previousZone |-> previousZone]
GazeUpdate(gaze, zone, raw) ==
    [callback |-> "onGazeUpdate", gaze |-> gaze, zone |-> zone, raw |-> raw]

\* CoreEyeTracker.processIrisTracking with updateCurrentZone
processIrisTracking(landmarks) ==
    LET gazePoint == calculateGazeFromIris(extractIrisData(landmarks)[1],
                                           coreEyeTracker.config.sensitivity)
        history == applySmoothingFilter(coreEyeTracker.gazeHistory,
                                        coreEyeTracker.gazeHistorySize, gazePoint)
        smoothedGaze == smoothedOf(history)
        zone == coreDetermineGazeZone(smoothedGaze)
    IN  /\ coreEyeTracker' = [coreEyeTracker EXCEPT !.gazeHistory = history,
                                                    !.smoothedGaze = smoothedGaze,
                                                    !.lastGazePoint = <<smoothedGaze>>,
                                                    !.currentZone = zone]
        /\ coreEmitted' = coreEmitted
               \o <<FaceDetected(TRUE)>>
               \o (IF zone # coreEyeTracker.currentZone
                   THEN <<ZoneChange(zone, coreEyeTracker.currentZone)>> ELSE <<>>)
               \o <<GazeUpdate(smoothedGaze, zone, gazePoint)>>

\* onResults forgetting the current zone when the face is lost.
coreOnResultsLoseZone(results) ==
    IF ~coreEyeTracker.isTracking
    THEN UNCHANGED coreVars
    ELSE IF results.faces = 0
    THEN /\ coreEmitted' = Append(coreEmitted, FaceDetected(FALSE))
         /\ coreEyeTracker' = [coreEyeTracker EXCEPT !.currentZone = Null]
    ELSE IF results.count < IrisCount
    THEN /\ coreEmitted' = Append(coreEmitted, FaceDetected(TRUE))
         /\ UNCHANGED coreEyeTracker
    ELSE processIrisTracking(results)

\* CoreEyeTracker.onResults
coreOnResults(results) ==
    IF ~coreEyeTracker.isTracking
    THEN UNCHANGED coreVars
    ELSE IF results.faces = 0
    THEN /\ coreEmitted' = Append(coreEmitted, FaceDetected(FALSE))
         /\ UNCHANGED coreEyeTracker
    ELSE IF results.count < IrisCount
    THEN /\ coreEmitted' = Append(coreEmitted, FaceDetected(TRUE))
         /\ UNCHANGED coreEyeTracker
    ELSE processIrisTracking(results)

\* CoreEyeTracker.start past its guards: the camera stream is obtained and
\* attached to the video element, the camera is started.
start ==
    /\ coreEyeTracker' = [coreEyeTracker EXCEPT !.isTracking = TRUE]
    /\ media' = [media EXCEPT !.core = 1]

\* CoreEyeTracker.stop: the camera (there is one once initialize has set up
\* MediaPipe) is stopped, the tracks of an attached stream are stopped and the
\* stream is detached.
stop ==
    /\ coreEyeTracker' = [coreEyeTracker EXCEPT !.isTracking = FALSE,
                                                !.currentZone = Null,
                                                !.gazeHistory = <<>>]
    /\ media' = [media EXCEPT !.core = 0,
                              !.coreCameraStops =
                                  IF coreEyeTracker.isInitialized THEN @ + 1 ELSE @]

\* -- camera frames
\* The face frames: where the user looks gives the eye centre and nose tip
\* the EyeTracker reads and the iris centre the CoreEyeTracker reads.
Looks ==
    {[name |-> "left", eye |-> Point(2400, 3000), nose |-> Point(3000, 3000),
      iris |-> Point(2640, 3000)],
     [name |-> "up", eye |-> Point(3000, 2400), nose |-> Point(3000, 3000),
      iris |-> Point(3000, 2520)],
     [name |-> "far", eye |-> Point(5400, 3000), nose |-> Point(3000, 3000),
      iris |-> Point(5400, 3000)],
     [name |-> "p", eye |-> Point(3600, 2400), nose |-> Point(3600, 2400),
      iris |-> Point(3120, 2760)]}

EyeSpan == 600
FullCount == 478
MeshCount == 468
PartialCount == 200

\* results of a frame showing one face with count landmarks.
Landmarks(look, count) ==
    [faces |-> 1, count |-> count, look |-> look.name,
     leftEye |-> Point(look.eye.x - EyeSpan, look.eye.y),
     rightEye |-> Point(look.eye.x + EyeSpan, look.eye.y),
     noseTip |-> look.nose,
     leftIris |-> Point(look.iris.x - EyeSpan, look.iris.y),
     rightIris |-> Point(look.iris.x + EyeSpan, look.iris.y)]

\* results of a frame showing no face.
NoFace ==
    [Landmarks(CHOOSE l \in Looks : l.name = "left", 0) EXCEPT !.faces = 0, !.look = Null]

\* The frames a camera delivers: full landmark sets for every look, and for
\* one look a mesh without the iris landmarks and a partial set.
Frames ==
    {Landmarks(l, FullCount) : l \in Looks}
        \cup {Landmarks(l, c) : l \in {k \in Looks : k.name = "left"},
                                c \in {MeshCount, PartialCount}}
        \cup {NoFace}

\* What is recorded of the latest frame: which tracker handled it, every
\* sample pushed so far, the zone the smoothed point classified to after the
\* latest push (Null before the first) and after the push before it.
NoFrame ==
    [seq |-> 0, free |-> 0, calibrations |-> 0, tracker |-> Null,
     via |-> Null, faces |-> 0, count |-> 0, zone |-> Null, previous |-> Null, samples |-> <<>>]

InitGaze ==
    /\ eyeTracker = NewEyeTracker
    /\ gazeEmitted = <<>>
    /\ initLog = <<>>
    /\ coreEyeTracker = NoCoreEyeTracker
    /\ coreEmitted = <<>>
    /\ frame = NoFrame

InitRest ==
    /\ InitSpeech
    /\ InitGaze
    /\ InitLife
    /\ pc = "idle"

\* ------------------------------------------------- the classifier's inputs
MaxWords == 3

Vocabulary ==
    { <<"n", "e", "x", "t">>,
      <<"g", "o">>,
      <<"b", "a", "c", "k">>,
      <<"n", "o", "w">>,
      <<"r", "e", "a", "d">>,
      <<"a", "l", "r", "e", "a", "d", "y">>,
      <<"s", "a", "y">>,
      <<"a", "g", "a", "i", "n">>,
      <<"x", "y", "z", "z", "y">>,
      <<"c", "o", "n", "s", "t", "r", "u", "c", "t", "o", "r">>,
      <<"P", "l", "e", "a", "s", "e", ",">> }

RECURSIVE join(_)
join(words) ==
    IF Len(words) = 1 THEN words[1]
    ELSE words[1] \o <<" ">> \o join(Tail(words))

RECURSIVE Sentences(_)
Sentences(n) ==
    IF n = 1 THEN {<<w>> : w \in Vocabulary}
    ELSE Sentences(n - 1) \cup {Append(s, w) : s \in Sentences(n - 1), w \in Vocabulary}

Transcripts == {join(s) : s \in Sentences(MaxWords)}
Confidences == {900, 500}

\* result[0].transcript.toLowerCase().trim() of a result without words
EmptyTranscript == <<>>

NoResult == [transcript |-> <<>>, confidence |-> 0, pending |-> FALSE]

\* The speech collaborator hands one transcript to processCommand; each event
\* emitted goes through emitEvent to the arbiter's subscription.
ProcessCommand ==
    /\ recognized.pending
    /\ recognized' = [recognized EXCEPT !.pending = FALSE]
    /\ LET out == processCommand(recognized.transcript, recognized.confidence)
       IN  /\ voiceEmitted' = voiceEmitted \o out
           /\ IF out = <<>>
              THEN UNCHANGED arbiterVars
              ELSE handleVoiceEvent(out[1].action, out[1].confidence)
    /\ UNCHANGED restVars

RegisterVoice == Register /\ UNCHANGED <<voiceVars, restVars>>

InitVoice ==
    /\ InitArbiter
    /\ InitRest
    /\ voiceEmitted = <<>>
    /\ recognized \in {[transcript |-> t, confidence |-> c, pending |-> TRUE] :
                          t \in Transcripts \cup {EmptyTranscript}, c \in Confidences}

NextVoice ==
    \/ ProcessCommand
    \/ RegisterVoice

SpecVoice == InitVoice /\ [][NextVoice]_vars

\* ------------------------------------------------------ the arbiter, driven
GazeArrives ==
    /\ \E e \in GazeInputs : handleGazeEvent(e.action, e.confidence)
    /\ UNCHANGED <<voiceVars, restVars>>
VoiceArrives ==
    /\ \E e \in VoiceInputs : handleVoiceEvent(e.action, e.confidence)
    /\ UNCHANGED <<voiceVars, restVars>>
KeyArrives ==
    /\ \E a \in KeyboardInputs : triggerAction(a)
    /\ UNCHANGED <<voiceVars, restVars>>
RegisterHandler == Register /\ UNCHANGED <<voiceVars, restVars>>
AdvanceClock == Advance /\ UNCHANGED <<voiceVars, restVars>>

Init ==
    /\ InitArbiter
    /\ InitRest
    /\ recognized = NoResult
    /\ voiceEmitted = <<>>

Next ==
    \/ arrivals < MaxEvents /\ GazeArrives
    \/ arrivals < MaxEvents /\ VoiceArrives
    \/ arrivals < MaxEvents /\ KeyArrives
    \/ RegisterHandler
    \/ AdvanceClock

Spec == Init /\ [][Next]_vars

\* ------------------------------------------- the arbiter at history capacity
\* The action of the k-th event of a burst (k = 1, 2, ...), cycling through
\* the vocabulary so that neighbouring history entries differ.
BurstActions == <<"NEXT", "BACK", "SELECT", "DASHBOARD", "REPEAT", "STOP", "START", "FALLBACK">>
BurstLen == HistoryCap - 1

\* A burst of voice events fills the history to one below its capacity.
Burst ==
    /\ arrivals < BurstLen
    /\ handleVoiceEvent(BurstActions[(arrivals % Len(BurstActions)) + 1], 900)
    /\ UNCHANGED <<voiceVars, restVars>>

NextFull ==
    \/ Burst
    \/ arrivals >= BurstLen /\ arrivals < BurstLen + MaxEvents /\ GazeArrives
    \/ arrivals >= BurstLen /\ arrivals < BurstLen + MaxEvents /\ VoiceArrives
    \/ arrivals >= BurstLen /\ arrivals < BurstLen + MaxEvents /\ KeyArrives
    \/ arrivals >= BurstLen /\ RegisterHandler
    \/ arrivals >= BurstLen /\ AdvanceClock

SpecFull == Init /\ [][NextFull]_vars

\* --------------------------------------------- start-up and the recognizers
MaxUtterances == 2

\* whisperVoiceInterface.startListening(): true at once when listening
\* already; otherwise granted tells whether getUserMedia gives the microphone,
\* and a refusal emits FALLBACK with confidence 0.
\* voiceInterface.startListening(): false when recognition is unsupported.
startListening(granted, supported, ready) ==
    IF isListening["whisperVoiceInterface"]
    THEN UNCHANGED <<isListening, voiceEmitted, arbiterVars, recognition, whisper, media>>
    ELSE IF granted
    THEN /\ isListening' = [isListening EXCEPT !["whisperVoiceInterface"] = TRUE]
         /\ whisper' = whisperStartListening(ready, whisper)
         /\ media' = [media EXCEPT !.microphone = @ + 1]
         /\ UNCHANGED <<voiceEmitted, arbiterVars, recognition>>
    ELSE /\ voiceEmitted' = Append(voiceEmitted,
                 VoiceEvent("FALLBACK", <<"permission-denied">>, 0))
         /\ handleVoiceEvent("FALLBACK", 0)
         /\ isListening' = [isListening EXCEPT !["voiceInterface"] =
                                @ \/ voiceStarted(supported, recognition)]
         /\ recognition' = voiceStartListening(supported, recognition)
         /\ UNCHANGED <<whisper, media>>

\* What a startListening() finds to listen with: open until the model has
\* loaded or failed to load, and as it was found from then on.
Ready ==
    IF whisper.engine \in {Null, "none"} THEN {"whisper", "webSpeech", "none"}
    ELSE {whisper.engine}

\* startInteractionSystems up to the end of `await eyeTracker.initialize()`.
StartInteractionSystems ==
    /\ pc = "idle"
    /\ \E available \in BOOLEAN : initialize(available)
    /\ pc' = "voice"
    /\ lifecycle' = [lifecycle EXCEPT !.stopped = FALSE]
    /\ UNCHANGED <<voiceVars, speechVars, coreVars, frame, recognition, whisper>>

\* startInteractionSystems from there: Whisper first, Web Speech if it fails.
StartListening ==
    /\ pc = "voice"
    /\ \E granted \in BOOLEAN, supported \in BOOLEAN, ready \in Ready :
          startListening(granted, supported, ready)
    /\ pc' = "idle"
    /\ UNCHANGED <<recognized, speech, gazeVars, coreVars, frame, lifecycle>>

\* What the user says.
Spoken ==
    { <<"n", "e", "x", "t">>,
      <<"S", "t", "a", "r", "t">>,
      <<"s", "t", "o", "p">>,
      <<"x", "y", "z", "z", "y">> }

\* The confidences a recognizer reports with an interim and with a final result.
InterimConfidences == {Undefined, 0, 700, 900}
FinalConfidences == {600}

\* Whether a provider listens through a recognizer that reports results to
\* its onresult handler (the Whisper pipeline transcribes recorded chunks).
Recognizing(p) ==
    isListening[p] /\ (p = "whisperVoiceInterface" => whisper.engine = "webSpeech")

\* The user says something: every recognizer that listens hears it.
Speak ==
    /\ speech.utterances < MaxUtterances
    /\ \A p \in Providers : speech.stage[p] = "done"
    /\ \E t \in Spoken :
          speech' = [speech EXCEPT !.utterances = @ + 1,
                                   !.transcript = t,
                                   !.stage = [p \in Providers |->
                                                 IF Recognizing(p) THEN "heard" ELSE "done"],
                                   !.callsBefore = Len(handlerCalls)]
    /\ UNCHANGED <<arbiterVars, voiceVars, isListening, gazeVars, coreVars, frame, pc, lifeVars>>

\* A provider's recognizer delivers a result for the utterance: at most one
\* interim result, then the final one. After restartRecognition has stopped
\* the recognizer, whether the final result still arrives is the engine's
\* choice. (A Whisper chunk is a final result with confidence 0.9.)
Deliver ==
    \E p \in Providers, isFinal \in BOOLEAN,
       c \in InterimConfidences \cup FinalConfidences, finalFollows \in BOOLEAN,
       ready \in Ready :
        /\ speech.stage[p] \in {"heard", "interim"}
        /\ c \in (IF isFinal THEN FinalConfidences ELSE InterimConfidences)
        /\ (~isFinal => speech.stage[p] = "heard")
        /\ (~finalFollows => restartsRecognition(p, isFinal, orDefault(c)))
        /\ onresult(p, Result(speech.transcript, c, isFinal), finalFollows, ready)
        /\ UNCHANGED <<gazeVars, coreVars, frame, pc, lifecycle>>

NextSpeech ==
    \/ initLog = <<>> /\ StartInteractionSystems
    \/ StartListening
    \/ RegisterHandler
    \/ Speak
    \/ Deliver

SpecSpeech == Init /\ [][NextSpeech]_vars

\* ------------------------------------------------ the gaze trackers, driven
MaxFrames == 2
MaxStarts == 2
MaxCalibrations == 1

\* The two trackers belong to different pages and share no state: a session
\* runs the EyeTracker singleton or constructs a CoreEyeTracker.
CameraMode == eyeTracker.isInitialized /\ ~eyeTracker.mockMode

\* The record of a handled frame.
Handled(tracker, results, free, zone, sample) ==
    [frame EXCEPT !.seq = @ + 1, !.free = @ + free, !.tracker = tracker,
                  !.via = "onResults",
                  !.faces = results.faces, !.count = results.count,
                  !.zone = IF sample = <<>> THEN @ ELSE zone,
                  !.previous = IF sample = <<>> THEN @ ELSE frame.zone,
                  !.samples = @ \o sample]

\* eyeTracker.initialize() is called (by startInteractionSystems or directly).
Initialize ==
    /\ Len(initLog) < MaxStarts
    /\ ~coreEyeTracker.constructed
    /\ \E available \in BOOLEAN : initialize(available)
    /\ UNCHANGED <<voiceVars, speechVars, coreVars, frame, pc,
                   recognition, whisper, lifecycle>>

\* The face mesh hands the EyeTracker the results of a frame.
EyeFrame(results, free) ==
    /\ CameraMode
    /\ onResults(results)
    /\ LET sample == IF results.faces = 0 THEN <<>> ELSE calculateGazePoint(results)
       IN  frame' = Handled("EyeTracker", results, free,
                        IF sample = <<>> THEN Null
                        ELSE determineGazeZone(getSmoothedGaze(eyeTracker'.gazeHistory),
                                               eyeTracker.calibrationData),
                        sample)
    /\ UNCHANGED <<voiceVars, speechVars, initLog, coreVars, pc, lifeVars>>

\* The frames that fill a history before the frames under study: the k-th
\* one cycles through the looks.
BurstLooks == <<"left", "p", "up", "far">>
BurstFrame(k) ==
    Landmarks(CHOOSE l \in Looks : l.name = BurstLooks[(k % Len(BurstLooks)) + 1], FullCount)
Bursting == frame.free = 0 /\ frame.seq < GazeDepth - 1

EyeBurst == Bursting /\ EyeFrame(BurstFrame(frame.seq), 0)

OnResults ==
    /\ frame.free < MaxFrames
    /\ \E results \in Frames : EyeFrame(results, 1)

\* The video loop runs processFrame on the next animation frame.
ProcessFrame ==
    /\ eyeTracker.processing
    /\ frame.free < MaxFrames
    /\ processFrame
    /\ frame' = IF CameraMode
                THEN [Handled("EyeTracker", [faces |-> 0, count |-> 0], 1,
                          determineGazeZone(getSmoothedGaze(eyeTracker'.gazeHistory),
                                            eyeTracker.calibrationData),
                          <<Point(Half, Half)>>) EXCEPT !.via = "processFrame"]
                ELSE frame
    /\ UNCHANGED <<voiceVars, speechVars, initLog, coreVars, pc, lifeVars>>

\* The user presses the calibration button.
Calibrate ==
    /\ frame.calibrations < MaxCalibrations
    /\ calibrate
    /\ frame' = [frame EXCEPT !.calibrations = @ + 1]
    /\ UNCHANGED <<arbiterVars, voiceVars, speechVars, gazeEmitted, initLog, coreVars, pc, lifeVars>>

\* The configurations a page constructs its CoreEyeTracker with.
Configs == {Config(35, 25, 3), Config(40, 30, 1)}

CoreConstruct ==
    /\ ~coreEyeTracker.constructed
    /\ initLog = <<>>
    /\ \E config \in Configs : coreEyeTracker' = NewCoreEyeTracker(config)
    /\ UNCHANGED <<arbiterVars, voiceVars, speechVars, gazeVars, coreEmitted, frame, pc, lifeVars>>

\* CoreEyeTracker.initialize: true at once when initialized, false with an
\* INIT_ERROR when MediaPipe fails to load.
CoreInitialize ==
    /\ coreEyeTracker.constructed
    /\ ~coreEyeTracker.isInitialized
    /\ \E loaded \in BOOLEAN :
          IF loaded
          THEN /\ coreEyeTracker' = [coreEyeTracker EXCEPT !.isInitialized = TRUE]
               /\ UNCHANGED coreEmitted
          ELSE /\ coreEmitted' = Append(coreEmitted, [callback |-> "onError", code |-> "INIT_ERROR"])
               /\ Len(coreEmitted) < 1
               /\ UNCHANGED coreEyeTracker
    /\ UNCHANGED <<arbiterVars, voiceVars, speechVars, gazeVars, frame, pc, lifeVars>>

\* CoreEyeTracker.start
CoreStart ==
    /\ coreEyeTracker.isInitialized
    /\ ~coreEyeTracker.isTracking
    /\ start
    /\ UNCHANGED <<arbiterVars, voiceVars, speechVars, gazeVars, coreEmitted, frame, pc,
                   recognition, whisper, lifecycle>>

\* CoreEyeTracker.stop
CoreStop ==
    /\ coreEyeTracker.isTracking
    /\ frame.free < MaxFrames
    /\ stop
    /\ frame' = [frame EXCEPT !.free = @ + 1, !.zone = Null, !.previous = Null,
                               !.samples = <<>>]
    /\ lifecycle' = [lifecycle EXCEPT !.coreStops = @ + 1]
    /\ UNCHANGED <<arbiterVars, voiceVars, speechVars, gazeVars, coreEmitted, pc,
                   recognition, whisper>>

\* The face mesh hands the CoreEyeTracker the results of a frame.
CoreFrame(results, free) ==
    /\ coreEyeTracker.isTracking
    /\ coreOnResults(results)
    /\ LET given == results.faces > 0 /\ results.count >= IrisCount
       IN  frame' = Handled("CoreEyeTracker", results, free,
                        IF given THEN coreDetermineGazeZone(coreEyeTracker'.smoothedGaze)
                        ELSE Null,
                        IF given
                        THEN <<calculateGazeFromIris(extractIrisData(results)[1],
                                                     coreEyeTracker.config.sensitivity)>>
                        ELSE <<>>)
    /\ UNCHANGED <<arbiterVars, voiceVars, speechVars, gazeVars, pc, lifeVars>>

CoreBurst == Bursting /\ CoreFrame(BurstFrame(frame.seq), 0)

CoreOnResults ==
    /\ frame.free < MaxFrames
    /\ \E results \in Frames : CoreFrame(results, 1)

NextGaze ==
    \/ Initialize
    \/ EyeBurst
    \/ OnResults
    \/ ProcessFrame
    \/ Calibrate
    \/ CoreConstruct
    \/ CoreInitialize
    \/ CoreStart
    \/ CoreStop
    \/ CoreBurst
    \/ CoreOnResults

SpecGaze == Init /\ [][NextGaze]_vars

\* ------------------------------------------------ failure and shutdown
MaxStops == 2
MaxRecognitions == 3
MaxChunks == 1
MaxKeys == 1

\* EyeTracker.destroy(): there is never a camera object to stop; the video
\* and canvas elements are removed from the document. The stream, the
\* processFrame loop and the listeners are left as they are.
destroy == [media EXCEPT !.video = FALSE]

\* InteractionManager.stopInteractionSystems()
stopInteractionSystems ==
    /\ isListening' = [p \in Providers |-> FALSE]
    /\ recognition' = voiceStopListening(isListening["voiceInterface"], recognition)
    /\ whisper' = whisperStopListening(isListening["whisperVoiceInterface"], whisper)
    /\ media' = destroy

StopInteractionSystems ==
    /\ pc = "idle"
    /\ lifecycle.stopCalls < MaxStops
    /\ stopInteractionSystems
    /\ lifecycle' = [lifecycle EXCEPT !.stopped = TRUE, !.stopCalls = @ + 1]
    /\ UNCHANGED <<arbiterVars, voiceVars, speech, gazeVars, coreVars, frame, pc>>

\* CoreEyeTracker.stop() on a tracker that is not tracking.
CoreStopStopped ==
    /\ coreEyeTracker.constructed
    /\ ~coreEyeTracker.isTracking
    /\ lifecycle.coreStops < MaxStops
    /\ stop
    /\ lifecycle' = [lifecycle EXCEPT !.coreStops = @ + 1]
    /\ UNCHANGED <<arbiterVars, voiceVars, speechVars, gazeVars, coreEmitted, frame, pc,
                   recognition, whisper>>

\* The errors a recognizer reports.
Errors == {"not-allowed", "no-speech"}

\* recognition.onerror: the running recognizer fails; its end event follows.
\* not-allowed emits FALLBACK, any other error sets the 1-second timeout that
\* calls restartRecognition.
onerror(error) ==
    IF error = "not-allowed"
    THEN /\ voiceEmitted' = Append(voiceEmitted,
                 VoiceEvent("FALLBACK", <<"permission-denied">>, 0))
         /\ handleVoiceEvent("FALLBACK", 0)
         /\ recognition' = [recognition EXCEPT !.state = "ending", !.denied = TRUE]
    ELSE /\ recognition' = [recognition EXCEPT !.state = "ending",
                                               !.restartTimers = @ + 1]
         /\ UNCHANGED <<voiceEmitted, arbiterVars>>

OnError ==
    /\ recognition.state = "running"
    /\ \E error \in Errors : onerror(error)
    /\ UNCHANGED <<recognized, speechVars, gazeVars, coreVars, frame, pc,
                   whisper, media, lifecycle>>

\* recognition.onend: while isListening, the 100 ms timeout that calls
\* restartRecognition is set.
onend ==
    recognition' = [recognition EXCEPT !.state = "idle",
                                       !.restartTimers =
                                           IF isListening["voiceInterface"] THEN @ + 1 ELSE @]

\* The recognizer ends: after stop() or an error, or by itself.
OnEnd ==
    /\ recognition.state # "idle"
    /\ onend
    /\ UNCHANGED <<arbiterVars, voiceVars, speechVars, gazeVars, coreVars, frame, pc,
                   whisper, media, lifecycle>>

\* A timeout set by onerror or onend fires: restartRecognition().
RestartTimeout ==
    /\ recognition.restartTimers > 0
    /\ recognition' = restartRecognition(isListening["voiceInterface"],
                          [recognition EXCEPT !.restartTimers = @ - 1])
    /\ UNCHANGED <<arbiterVars, voiceVars, speechVars, gazeVars, coreVars, frame, pc,
                   whisper, media, lifecycle>>

\* The timeout set by restartRecognition fires:
\* if (this.recognition && this.isListening) this.recognition.start()
StartTimeout ==
    /\ recognition.startTimers > 0
    /\ recognition.starts < MaxRecognitions
    /\ recognition' =
           LET r == [recognition EXCEPT !.startTimers = @ - 1]
           IN  IF isListening["voiceInterface"]
               THEN recognitionStart(r, "restartRecognition") ELSE r
    /\ UNCHANGED <<arbiterVars, voiceVars, speechVars, gazeVars, coreVars, frame, pc,
                   whisper, media, lifecycle>>

\* The 2-second timeout of scheduleNextChunk fires: a recording recorder is
\* stopped and the 100 ms timeout that resumes recording is set.
ChunkTimeout ==
    /\ whisper.recordingTimeout
    /\ whisper.recorderStops < MaxChunks
    /\ whisper' =
           LET w == [whisper EXCEPT !.recordingTimeout = FALSE]
           IN  IF w.recorder = "recording"
               THEN [recorderStop(w) EXCEPT !.resumeTimers = @ + 1]
               ELSE w
    /\ UNCHANGED <<arbiterVars, voiceVars, speechVars, gazeVars, coreVars, frame, pc,
                   recognition, media, lifecycle>>

\* The timeout that resumes recording fires:
\* if (this.isListening && this.mediaRecorder) { start(); scheduleNextChunk() }
Resume ==
    /\ whisper.resumeTimers > 0
    /\ whisper' =
           LET w == [whisper EXCEPT !.resumeTimers = @ - 1]
           IN  IF isListening["whisperVoiceInterface"] /\ w.recorder # "none"
               THEN [w EXCEPT !.recorder = "recording", !.recordingTimeout = TRUE]
               ELSE w
    /\ UNCHANGED <<arbiterVars, voiceVars, speechVars, gazeVars, coreVars, frame, pc,
                   recognition, media, lifecycle>>

\* mediaRecorder.onstop: the recorded chunks are handed to
\* processAudioWithWhisper, which awaits the transcription.
RecorderOnStop ==
    /\ whisper.onstops > 0
    /\ whisper' = [whisper EXCEPT !.onstops = @ - 1, !.transcribing = @ + 1]
    /\ UNCHANGED <<arbiterVars, voiceVars, speechVars, gazeVars, coreVars, frame, pc,
                   recognition, media, lifecycle>>

\* The effects of a processCommand call made outside onresult, which
\* emits the events out.
classify(out, ready) ==
    /\ voiceEmitted' = voiceEmitted \o out
    /\ IF out = <<>>
       THEN UNCHANGED arbiterVars
       ELSE handleVoiceEvent(out[1].action, out[1].confidence)
    /\ isListening' = heard(out, ready).listening
    /\ recognition' = heard(out, ready).recognition
    /\ media' = heard(out, ready).media

\* What the Whisper pipeline gives for a chunk.
WhisperConfidence == 900

\* processAudioWithWhisper resumes with the text of the chunk: a non-empty
\* text is classified with confidence 0.9.
Transcribed ==
    /\ whisper.transcribing > 0
    /\ \E text \in Spoken \cup {EmptyTranscript}, ready \in Ready :
          LET command == trim(toLowerCase(text))
          IN  IF command = <<>>
              THEN /\ whisper' = [whisper EXCEPT !.transcribing = @ - 1]
                   /\ UNCHANGED <<arbiterVars, voiceEmitted, isListening, recognition, media>>
              ELSE \E out \in {processCommand(command, WhisperConfidence)} :
                       /\ classify(out, ready)
                       /\ whisper' = [heard(out, ready).whisper
                                          EXCEPT !.transcribing = @ - 1]
    /\ UNCHANGED <<recognized, speech, gazeVars, coreVars, frame, pc, lifecycle>>

\* The keys with a binding: the keydown listener of EyeTracker maps the arrow
\* keys, Enter and Space; the listener of voiceInterface maps Ctrl+1..6 to a
\* spoken command.
GazeKeys ==
    [ArrowLeft |-> [action |-> "BACK", zone |-> "LEFT"],
     ArrowRight |-> [action |-> "NEXT", zone |-> "RIGHT"],
     Enter |-> [action |-> "SELECT", zone |-> "CENTER"],
     Space |-> [action |-> "SELECT", zone |-> "CENTER"],
     ArrowDown |-> [action |-> "DASHBOARD", zone |-> "DOWN"]]

VoiceKeys ==
    [Ctrl1 |-> <<"n", "e", "x", "t">>,
     Ctrl2 |-> <<"b", "a", "c", "k">>,
     Ctrl3 |-> <<"s", "e", "l", "e", "c", "t">>,
     Ctrl4 |-> <<"d", "a", "s", "h", "b", "o", "a", "r", "d">>,
     Ctrl5 |-> <<"r", "e", "p", "e", "a", "t">>,
     Ctrl6 |-> <<"s", "t", "o", "p">>]

KeyConfidence == 1000

\* The keydown listener EyeTracker's constructor installs: it acts only
\* while the tracker is not initialized or is in mock mode.
setupKeyboardFallback(key) ==
    IF ~eyeTracker.isInitialized \/ eyeTracker.mockMode
    THEN emitEvent(GazeEvent(GazeKeys[key].action, GazeKeys[key].zone, KeyConfidence))
    ELSE UNCHANGED <<gazeEmitted, arbiterVars>>

\* The keydown listener VoiceInterface.initialize installs.
setupKeyboardVoiceSimulation(key, ready) ==
    \E out \in {processCommand(VoiceKeys[key], KeyConfidence)} :
        /\ classify(out, ready)
        /\ whisper' = heard(out, ready).whisper

\* The user presses one of the given keys: every keydown listener on the
\* document runs.
KeyDown(keys) ==
    /\ lifecycle.keys < MaxKeys
    /\ \/ \E key \in keys \cap DOMAIN GazeKeys :
             /\ lifecycle' = [lifecycle EXCEPT !.keys = @ + 1, !.key = key]
             /\ setupKeyboardFallback(key)
             /\ UNCHANGED <<voiceVars, isListening, recognition, whisper, media>>
       \/ \E key \in keys \cap DOMAIN VoiceKeys, ready \in Ready :
             /\ lifecycle' = [lifecycle EXCEPT !.keys = @ + 1, !.key = key]
             /\ setupKeyboardVoiceSimulation(key, ready)
             /\ UNCHANGED <<recognized, gazeEmitted>>
    /\ UNCHANGED <<speech, eyeTracker, initLog, coreVars, frame, pc>>

\* The keys pressed while the systems are started and stopped.
ShutdownKeys == {"ArrowRight", "Ctrl1"}
KeyDuringShutdown == KeyDown(ShutdownKeys)

\* One start of the interaction systems, on a page without a CoreEyeTracker.
StartOnce ==
    /\ initLog = <<>>
    /\ ~coreEyeTracker.constructed
    /\ StartInteractionSystems

\* The Web Speech recognizer of voiceInterface through start, failure,
\* restart and stop.
NextRecognizer ==
    \/ StartOnce
    \/ StartListening
    \/ RegisterHandler
    \/ StopInteractionSystems
    \/ OnError
    \/ OnEnd
    \/ RestartTimeout
    \/ StartTimeout

SpecRecognizer == Init /\ [][NextRecognizer]_vars

\* The recorder, the video loop, the key listeners and the CoreEyeTracker
\* through start and stop.
NextLife ==
    \/ StartOnce
    \/ StartListening
    \/ RegisterHandler
    \/ StopInteractionSystems
    \/ ChunkTimeout
    \/ Resume
    \/ RecorderOnStop
    \/ Transcribed
    \/ KeyDuringShutdown
    \/ ProcessFrame
    \/ CoreConstruct
    \/ CoreInitialize
    \/ CoreStart
    \/ CoreStop
    \/ CoreStopStopped

SpecLife == Init /\ [][NextLife]_vars

\* ------------------------------------------- stopping while a start is pending
\* whisperVoiceInterface.startListening() up to `await getUserMedia(...)`:
\* it is not listening, so it asks for the microphone and yields.
AwaitMicrophone ==
    /\ pc = "voice"
    /\ ~isListening["whisperVoiceInterface"]
    /\ pc' = "media"
    /\ UNCHANGED <<arbiterVars, voiceVars, speechVars, gazeVars, coreVars, frame, lifeVars>>

\* getUserMedia settles and startListening() runs on from its await, then
\* startInteractionSystems from its own.
MicrophoneSettles ==
    /\ pc = "media"
    /\ \E granted \in BOOLEAN, supported \in BOOLEAN, ready \in Ready :
          startListening(granted, supported, ready)
    /\ pc' = "idle"
    /\ UNCHANGED <<recognized, speech, gazeVars, coreVars, frame, lifecycle>>

\* stopInteractionSystems() called while startListening() awaits the microphone.
StopWhilePending ==
    /\ pc = "media"
    /\ lifecycle.stopCalls < MaxStops
    /\ stopInteractionSystems
    /\ lifecycle' = [lifecycle EXCEPT !.stopped = TRUE, !.stopCalls = @ + 1]
    /\ UNCHANGED <<arbiterVars, voiceVars, speech, gazeVars, coreVars, frame, pc>>

\* CoreEyeTracker.start() up to `await getUserMedia(...)`.
CoreAwaitCamera ==
    /\ coreEyeTracker.isInitialized
    /\ ~coreEyeTracker.isTracking
    /\ lifecycle.coreStart = "none"
    /\ lifecycle' = [lifecycle EXCEPT !.coreStart = "pending"]
    /\ UNCHANGED <<arbiterVars, voiceVars, speechVars, gazeVars, coreVars, frame, pc,
                   recognition, whisper, media>>

\* getUserMedia settles and CoreEyeTracker.start() runs on from its await:
\* with the camera it attaches the stream and sets isTracking, without it
\* reports START_ERROR.
CoreCameraSettles ==
    /\ lifecycle.coreStart # "none"
    /\ lifecycle' = [lifecycle EXCEPT !.coreStart = "none"]
    /\ \E granted \in BOOLEAN :
          IF granted
          THEN start /\ UNCHANGED coreEmitted
          ELSE /\ coreEmitted' = Append(coreEmitted, [callback |-> "onError", code |-> "START_ERROR"])
               /\ Len(coreEmitted) < 1
               /\ UNCHANGED <<coreEyeTracker, media>>
    /\ UNCHANGED <<arbiterVars, voiceVars, speechVars, gazeVars, frame, pc,
                   recognition, whisper>>

\* CoreEyeTracker.stop() called while start() awaits the camera.
CoreStopWhilePending ==
    /\ lifecycle.coreStart = "pending"
    /\ lifecycle.coreStops < MaxStops
    /\ stop
    /\ lifecycle' = [lifecycle EXCEPT !.coreStart = "cancelled", !.coreStops = @ + 1]
    /\ UNCHANGED <<arbiterVars, voiceVars, speechVars, gazeVars, coreEmitted, frame, pc,
                   recognition, whisper>>

\* Starts that await media access, with stops arriving meanwhile, and what
\* the recorder and the face mesh deliver afterwards.
NextPending ==
    \/ StartOnce
    \/ RegisterHandler
    \/ AwaitMicrophone
    \/ MicrophoneSettles
    \/ StopWhilePending
    \/ ChunkTimeout
    \/ RecorderOnStop
    \/ Transcribed
    \/ Resume
    \/ CoreConstruct
    \/ CoreInitialize
    \/ CoreAwaitCamera
    \/ CoreCameraSettles
    \/ CoreStopWhilePending
    \/ CoreOnResults

SpecPending == Init /\ [][NextPending]_vars

\* ------------------------------------------------- restarts of the recognizer
\* The recognizers hear one utterance, and voiceInterface's recognizer ends
\* and is restarted by its timeouts.
SpeakOnce == speech.utterances = 0 /\ Speak

NextRestart ==
    \/ StartOnce
    \/ StartListening
    \/ SpeakOnce
    \/ Deliver
    \/ OnEnd
    \/ RestartTimeout
    \/ StartTimeout

SpecRestart == Init /\ [][NextRestart]_vars

\* ------------------------------------------------------------ the keyboard
\* Every key with a binding.
BoundKeys == DOMAIN GazeKeys \cup DOMAIN VoiceKeys

\* The user presses a bound key.
KeyPressed == KeyDown(BoundKeys)

\* The manual controls of the debug panel: Trigger NEXT, BACK and SELECT.
ManualControls == {"NEXT", "BACK", "SELECT"}

\* The user activates one of the manual controls.
ManualControl ==
    /\ lifecycle.keys < MaxKeys
    /\ lifecycle' = [lifecycle EXCEPT !.keys = @ + 1, !.key = "Trigger"]
    /\ \E action \in ManualControls : triggerAction(action)
    /\ UNCHANGED <<voiceVars, speechVars, gazeVars, coreVars, frame, pc,
                   recognition, whisper, media>>

\* The keyboard while the systems start, with the camera or in mock mode,
\* listening or refused the microphone, as time passes.
NextKeys ==
    \/ StartOnce
    \/ StartListening
    \/ RegisterHandler
    \/ KeyPressed
    \/ ManualControl
    \/ AdvanceClock

SpecKeys == Init /\ [][NextKeys]_vars

\* ------------------------------------------------ the published commands
\* voiceCommands: the table of spoken commands and their actions.
voiceCommands ==
    <<[command |-> <<"n", "e", "x", "t">>, action |-> "NEXT"],
      [command |-> <<"p", "r", "e", "v", "i", "o", "u", "s">>, action |-> "BACK"],
      [command |-> <<"b", "a", "c", "k">>, action |-> "BACK"],
      [command |-> <<"s", "e", "l", "e", "c", "t">>, action |-> "SELECT"],
      [command |-> <<"c", "h", "o", "o", "s", "e">>, action |-> "SELECT"],
      [command |-> <<"d", "a", "s", "h", "b", "o", "a", "r", "d">>, action |-> "DASHBOARD"],
      [command |-> <<"m", "e", "n", "u">>, action |-> "DASHBOARD"],
      [command |-> <<"h", "o", "m", "e">>, action |-> "DASHBOARD"],
      [command |-> <<"r", "e", "p", "e", "a", "t">>, action |-> "REPEAT"],
      [command |-> <<"r", "e", "a", "d">>, action |-> "REPEAT"],
      [command |-> <<"h", "e", "l", "p">>, action |-> "HELP"]>>

\* One command of the table is spoken alone and recognized with one of the
\* confidences a recognizer reports.
InitTable ==
    /\ InitArbiter
    /\ InitRest
    /\ voiceEmitted = <<>>
    /\ recognized \in {[transcript |-> voiceCommands[i].command, confidence |-> c,
                        pending |-> TRUE] :
                          i \in DOMAIN voiceCommands, c \in Confidences \cup FinalConfidences}

SpecTable == InitTable /\ [][NextVoice]_vars

\* ------------------------------------------------- the mouse simulation
MaxMoves == 2
MaxMouseTime == 4200

\* Window fractions in percent and the times of the listener.
EdgeLow == 10
EdgeHigh == 90
CentreLow == 40
CentreHigh == 60
Throttle == 1500
ResetAfter == 2000
MouseConfidence == 800

\* The zone the listener gives a position at an edge.
mouseZone(x, y) ==
    IF x < EdgeLow THEN "LEFT"
    ELSE IF x > EdgeHigh THEN "RIGHT"
    ELSE IF y > EdgeHigh THEN "DOWN"
    ELSE IF x >= CentreLow /\ x <= CentreHigh /\ y >= CentreLow /\ y <= CentreHigh
    THEN "CENTER"
    ELSE "NONE"

isAtEdge(x, y) == x < EdgeLow \/ x > EdgeHigh \/ y < EdgeLow \/ y > EdgeHigh

\* The mousemove listener setupMouseSimulation adds, for a move to (x, y).
mousemove(x, y) ==
    LET mouse == [eyeTracker.mouse EXCEPT !.x = x, !.y = y, !.moves = @ + 1]
        zone == mouseZone(x, y)
        throttled == mouse.emitted /\ now - mouse.lastEmitTime < Throttle
        longAgo == ~mouse.emitted \/ now - mouse.lastEmitTime > ResetAfter
    IN  IF isAtEdge(x, y)
        THEN IF ~throttled /\ zone # mouse.lastZone /\ zone # "NONE"
             THEN /\ eyeTracker' =
                         [eyeTracker EXCEPT !.currentZone = zone,
                                            !.mouse = [mouse EXCEPT !.isMouseActive = TRUE,
                                                                    !.lastEmitTime = now,
                                                                    !.emitted = TRUE,
                                                                    !.lastZone = zone]]
                  /\ emitEvent(GazeEvent(mapZoneToAction(zone), zone, MouseConfidence))
             ELSE /\ eyeTracker' =
                         [eyeTracker EXCEPT !.mouse = [mouse EXCEPT !.isMouseActive = TRUE]]
                  /\ UNCHANGED <<gazeEmitted, arbiterVars>>
        ELSE /\ eyeTracker' =
                    [eyeTracker EXCEPT !.mouse =
                        IF mouse.isMouseActive /\ longAgo
                        THEN [mouse EXCEPT !.isMouseActive = FALSE, !.lastZone = "NONE"]
                        ELSE mouse]
             /\ UNCHANGED <<gazeEmitted, arbiterVars>>

\* Where the user moves the mouse: the four advertised gestures (far left,
\* far right, far bottom, centre), the top edge and a place off every zone.
Gestures ==
    [FarLeft |-> Point(5, 50), FarRight |-> Point(95, 50),
     FarBottom |-> Point(50, 95), Centre |-> Point(50, 50)]
MousePositions ==
    {Gestures[g] : g \in DOMAIN Gestures} \cup {Point(50, 5), Point(30, 30)}

\* The user moves the mouse while the simulation is installed.
MouseMove ==
    /\ eyeTracker.mouseSimulations = 1
    /\ eyeTracker.mouse.moves < MaxMoves
    /\ \E p \in MousePositions : mousemove(p.x, p.y)
    /\ UNCHANGED <<voiceVars, speechVars, initLog, coreVars, frame, pc, lifeVars>>

\* The user waits.
MouseWaits == {Throttle, 600}
MouseWait ==
    /\ \E d \in MouseWaits :
          /\ now + d <= MaxMouseTime
          /\ now' = now + d
    /\ UNCHANGED <<interactionHistory, lastInteraction, dashboardHandler,
                   handlerCalls, adaptiveInteraction, lastOp, arrivals>>
    /\ UNCHANGED <<voiceVars, restVars>>

\* The mouse simulation of a tracker in mock mode, as time passes.
NextMouse ==
    \/ StartOnce
    \/ RegisterHandler
    \/ MouseMove
    \/ MouseWait

SpecMouse == Init /\ [][NextMouse]_vars

\* ------------------------------------------------------------------ claims
\* A step in which an event of the given source is delivered to the arbiter.
Delivered(type) == lastOp'.seq # lastOp.seq /\ lastOp'.type = type

\* The event delivered by the step, as the arbiter records it.
DeliveredEvent == Interaction(lastOp'.type, lastOp'.action, now)

\* The step drops the delivered event: no state of the arbiter changes.
StepSuppresses ==
    UNCHANGED <<interactionHistory, lastInteraction, handlerCalls, adaptiveInteraction>>

\* The step accepts the delivered event with the given confidence: it becomes
\* the newest history entry and the last event, and its processing completes
\* (the analytics event that ends processInteraction is dispatched).
StepAccepts(confidence) ==
    /\ interactionHistory' # <<>>
    /\ interactionHistory'[Len(interactionHistory')] = DeliveredEvent
    /\ Len(interactionHistory') =
           IF Len(interactionHistory) < 50 THEN Len(interactionHistory) + 1 ELSE 50
    /\ lastInteraction' = DeliveredEvent
    /\ adaptiveInteraction' = Append(adaptiveInteraction,
           [interaction |-> DeliveredEvent, confidence |-> confidence])

C2_VoiceAlwaysAccepted ==
    [][Delivered("voice") => StepAccepts(lastOp'.confidence)]_vars

C2_Witness ==
    /\ lastOp.type = "voice" /\ lastOp.seq = 2
    /\ Len(interactionHistory) = 2
    /\ interactionHistory[1].type = "voice"
    /\ interactionHistory[2].timestamp = interactionHistory[1].timestamp

AcceptedEvents == [i \in DOMAIN adaptiveInteraction |-> adaptiveInteraction[i].interaction]

\* C4: the history holds at most 50 entries and is exactly the most recent
\* min(n, 50) accepted events in arrival order.
C4_HistoryIsLast50 ==
    LET n == Len(AcceptedEvents)
        k == IF n < 50 THEN n ELSE 50
    IN  /\ Len(interactionHistory) <= 50
        /\ interactionHistory = SubSeq(AcceptedEvents, n - k + 1, n)

C4_Witness ==
    /\ Len(adaptiveInteraction) = 51
    /\ Len(interactionHistory) = 50
    /\ interactionHistory[1] = adaptiveInteraction[2].interaction

\* A step that accepts an event of the action vocabulary.
AcceptsVocabulary ==
    /\ lastOp'.seq # lastOp.seq
    /\ lastOp'.action \in Actions
    /\ Len(adaptiveInteraction') = Len(adaptiveInteraction) + 1

\* C5 as claimed: an accepted event below the 0.3 floor is recorded but the
\* handler is not invoked for it; one not below the floor (0.3 included) is
\* forwarded.
C5_FloorInclusive ==
    [][(AcceptsVocabulary /\ dashboardHandler # Null) =>
        /\ StepAccepts(lastOp'.confidence)
        /\ (lastOp'.confidence < 300 => handlerCalls' = handlerCalls)
        /\ (lastOp'.confidence >= 300 => Len(handlerCalls') = Len(handlerCalls) + 1)]_vars

\* C5 as amended: an accepted event whose confidence is at or below 0.3 is
\* recorded but the handler is never invoked for it; one whose confidence is
\* strictly above 0.3 is forwarded.
C5_FloorExclusive ==
    [][AcceptsVocabulary =>
        /\ StepAccepts(lastOp'.confidence)
        /\ (lastOp'.confidence <= 300 => handlerCalls' = handlerCalls)
        /\ (lastOp'.confidence > 300 /\ dashboardHandler # Null
               => Len(handlerCalls') = Len(handlerCalls) + 1)]_vars

C5_Witness ==
    /\ lastOp.accepted /\ lastOp.confidence = 300 /\ lastOp.action \in Actions
    /\ dashboardHandler # Null
    /\ lastInteraction = Interaction(lastOp.type, lastOp.action, lastOp.timestamp)
    /\ handlerCalls = <<>>

\* The handler call the specification fixes for each action.
HandlerName ==
    [a \in Actions |->
        CASE a = "NEXT" -> "goNext"           [] a = "BACK" -> "goBack"
          [] a = "SELECT" -> "selectCurrent"  [] a = "DASHBOARD" -> "openDashboard"
          [] a = "REPEAT" -> "repeatContent"  [] a = "STOP" -> "stopAction"
          [] a = "START" -> "startAction"     [] a = "FALLBACK" -> "showFallbackControls"]

\* C6: an accepted event with sufficient confidence, while a handler is
\* registered, makes exactly one handler call, named by its action; no event
\* makes two calls or a call with another name.
C6_OneCallPerEvent ==
    [][/\ (AcceptsVocabulary /\ lastOp'.confidence > 300 /\ dashboardHandler # Null)
            => handlerCalls' = Append(handlerCalls,
                   [handler |-> dashboardHandler, name |-> HandlerName[lastOp'.action]])
       /\ Len(handlerCalls') <= Len(handlerCalls) + 1
       /\ \A i \in DOMAIN handlerCalls : handlerCalls'[i] = handlerCalls[i]
       /\ (handlerCalls' # handlerCalls =>
              /\ lastOp'.seq # lastOp.seq /\ lastOp'.action \in Actions
              /\ handlerCalls'[Len(handlerCalls')].name = HandlerName[lastOp'.action])]_vars

C6_Witness ==
    /\ Len(handlerCalls) = 2
    /\ handlerCalls[1].name = "startAction"
    /\ handlerCalls[2].name = "showFallbackControls"

\* C7: while no handler is registered, accepting an event completes without
\* error and updates history and last event; a handler registered later is
\* delivered none of the events accepted earlier.
C7_NoHandlerNoReplay ==
    [][/\ (lastOp'.seq # lastOp.seq /\ dashboardHandler = Null
              /\ Len(adaptiveInteraction') = Len(adaptiveInteraction) + 1)
            => (StepAccepts(lastOp'.confidence) /\ handlerCalls' = handlerCalls)
       /\ (dashboardHandler' # dashboardHandler => handlerCalls' = handlerCalls)
       /\ (handlerCalls' # handlerCalls =>
              /\ lastOp'.seq # lastOp.seq /\ lastOp'.action \in Actions
              /\ dashboardHandler # Null
              /\ handlerCalls' = Append(handlerCalls,
                     [handler |-> dashboardHandler, name |-> HandlerName[lastOp'.action]]))]_vars

C7_Witness ==
    /\ dashboardHandler # Null
    /\ Len(interactionHistory) = 2
    /\ lastOp.seq = 2 /\ lastOp.confidence > 300 /\ lastOp.action \in Actions
    /\ handlerCalls = <<>>

\* ------------------------------------------------ claims on the classifier
\* The transcript handed over has been classified.
Classified == ~recognized.pending /\ recognized.transcript # <<>>

\* The normalized transcript and its tokens.
Normalized == cleanCommand(recognized.transcript)
Tokens == split(Normalized)

IsPhrase(str) == \E i \in DOMAIN exactCommands : exactCommands[i].phrase = str
PhraseAction(str) ==
    exactCommands[CHOOSE i \in DOMAIN exactCommands : exactCommands[i].phrase = str].action

\* Exactly one event was emitted, with this action and confidence, and the
\* arbiter received it as one voice event.
EmittedOnce(action, confidence) ==
    /\ Len(voiceEmitted) = 1
    /\ voiceEmitted[1].action = action
    /\ voiceEmitted[1].confidence = confidence
    /\ arrivals = 1
    /\ adaptiveInteraction =
           <<[interaction |-> Interaction("voice", action, now), confidence |-> confidence]>>

\* C8: a transcript whose normalized form contains the token "read" yields
\* exactly one REPEAT event with the original confidence, whatever other
\* tokens are present.
C8_ReadOverride ==
    (Classified /\ \E i \in DOMAIN Tokens : Tokens[i] = READ)
        => EmittedOnce("REPEAT", recognized.confidence)

C8_Witness ==
    /\ Classified
    /\ recognized.transcript = <<"n", "e", "x", "t", " ", "r", "e", "a", "d">>
    /\ Len(voiceEmitted) = 1 /\ voiceEmitted[1].action = "REPEAT"
    /\ voiceEmitted[1].confidence = 900

\* C9: a transcript whose whole normalized form is a phrase of the table
\* yields the table's action with the original confidence, never penalized.
C9_ExactKeepsConfidence ==
    (Classified /\ IsPhrase(Normalized))
        => EmittedOnce(PhraseAction(Normalized), recognized.confidence)

C9_Witness ==
    /\ Classified
    /\ recognized.transcript = <<"g", "o", " ", "b", "a", "c", "k">>
    /\ Len(voiceEmitted) = 1 /\ voiceEmitted[1].action = "BACK"
    /\ voiceEmitted[1].confidence = 900

\* C10: with no "read" and no exact phrase, the first token that is a table
\* phrase yields one event with that phrase's action and 0.6 times the
\* original confidence.
C10_FirstTokenPenalized ==
    LET hits == {i \in DOMAIN Tokens : IsPhrase(Tokens[i])}
    IN  (Classified /\ ~includes(Normalized, READ) /\ ~IsPhrase(Normalized) /\ hits # {})
            => EmittedOnce(PhraseAction(Tokens[CHOOSE i \in hits : \A j \in hits : i <= j]),
                           (recognized.confidence * 6) \div 10)

\* No rule of the classifier matches the normalized transcript: it does not
\* contain "read", it is no phrase of the table, and none of its tokens is.
NoRuleMatches ==
    /\ ~includes(Normalized, READ)
    /\ ~IsPhrase(Normalized)
    /\ \A i \in DOMAIN Tokens : ~IsPhrase(Tokens[i])

\* C11: a transcript that matches no rule (the empty transcript included)
\* produces no event and leaves the arbiter's history and last event unchanged.
C11_NoMatchDiscarded ==
    (~recognized.pending /\ NoRuleMatches)
        => /\ voiceEmitted = <<>>
           /\ arrivals = 0
           /\ interactionHistory = <<>>
           /\ lastInteraction = NullInteraction

\* ------------------------------------------------ claims on the recognizers
\* A step in which a provider's onresult handles a result.
ResultHandled == speech'.results # speech.results

\* The events the classifier emits for the result the step handles.
ClassifiedResult ==
    processCommand(trim(toLowerCase(speech'.result.transcript)),
                   orDefault(speech'.result.confidence))

\* C12: an interim result is classified only if its reported confidence
\* exceeds 0.7; an interim result reported at or below 0.7, a reported 0 and
\* an absent confidence included, produces no event; a final result is
\* always classified.
C12_InterimGate ==
    [][ResultHandled =>
        LET r == speech'.result
        IN  IF r.isFinal \/ r.confidence > 700
            THEN voiceEmitted' = voiceEmitted \o ClassifiedResult
            ELSE voiceEmitted' = voiceEmitted /\ arrivals' = arrivals]_vars

\* C13: one utterance causes at most one action to reach the application:
\* the handler calls made since the utterance began never hold the same
\* action twice.
C13_OneActionPerUtterance ==
    \A i, j \in (speech.callsBefore + 1)..Len(handlerCalls) :
        i # j => handlerCalls[i].name # handlerCalls[j].name

\* --------------------------------------------- claims on the gaze trackers
\* A step in which a tracker handles a frame, and one in which the frame
\* gives a gaze point that is pushed into the history.
FrameHandled == frame'.seq # frame.seq
SamplePushed == FrameHandled /\ Len(frame'.samples) = Len(frame.samples) + 1

\* The zone events the step emits: GazeEvents of the EyeTracker, onZoneChange
\* callbacks of the CoreEyeTracker.
ZoneChanges(emitted) ==
    SelectSeq(emitted, LAMBDA e : e.callback = "onZoneChange")
ZonesEmitted ==
    IF frame'.tracker = "EyeTracker"
    THEN [i \in 1..(Len(gazeEmitted') - Len(gazeEmitted)) |->
             gazeEmitted'[Len(gazeEmitted) + i].zone]
    ELSE [i \in 1..(Len(ZoneChanges(coreEmitted')) - Len(ZoneChanges(coreEmitted))) |->
             ZoneChanges(coreEmitted')[Len(ZoneChanges(coreEmitted)) + i].zone]

\* C14: zone emission is edge-triggered: of consecutive frames whose smoothed
\* point classifies to the same zone other than NONE, the first emits exactly
\* one event for that zone and the following ones emit none.
C14_EdgeTriggered ==
    [][(SamplePushed /\ frame'.zone # "NONE") =>
        IF frame'.previous = frame'.zone
        THEN ZonesEmitted = <<>>
        ELSE ZonesEmitted = <<frame'.zone>>]_vars

\* The smoothed point of the tracker that handled the frame, and the
\* calibration centre it classifies against (a CoreEyeTracker has none but
\* the default).
SmoothedPoint ==
    IF frame'.tracker = "EyeTracker"
    THEN getSmoothedGaze(eyeTracker'.gazeHistory)
    ELSE coreEyeTracker'.smoothedGaze
Centre ==
    IF frame'.tracker = "EyeTracker"
    THEN eyeTracker.calibrationData
    ELSE [centerX |-> Half, centerY |-> Half]

\* The zone of a point as the specification orders the tests.
ZoneOf(x, y, cx, cy) ==
    IF y > cy + 900 THEN "DOWN"
    ELSE IF x < cx - 900 THEN "LEFT"
    ELSE IF x > cx + 900 THEN "RIGHT"
    ELSE IF abs(x - cx) < 900 /\ abs(y - cy) < 900 THEN "CENTER"
    ELSE "NONE"

\* C15: every smoothed point is given exactly one zone, decided in this order
\* relative to the calibration centre with threshold 0.15: DOWN if below,
\* else LEFT if left, else RIGHT if right, else CENTER if within the
\* threshold on both axes, otherwise NONE.
C15_ZoneOrder ==
    [][SamplePushed =>
        frame'.zone = ZoneOf(SmoothedPoint.x, SmoothedPoint.y,
                             Centre.centerX, Centre.centerY)]_vars

\* The mean of the last min(n, depth) samples pushed.
MeanOfLast(samples, depth) ==
    LET n == Len(samples)
        k == IF n < depth THEN n ELSE depth
        last == SubSeq(samples, n - k + 1, n)
    IN  Point(SumX(last) \div k, SumY(last) \div k)

\* A step in which calibrate() is called, and the samples the EyeTracker
\* has pushed before it.
Calibrated == frame'.calibrations # frame.calibrations
EyeSamples == IF frame.tracker = "EyeTracker" THEN frame.samples ELSE <<>>

\* C16: calibrate() with a non-empty history whose smoothed point is p sets
\* the calibration offset to p, and a later smoothed point equal to the
\* offset classifies as CENTER; calibrate() with an empty history leaves the
\* offset unchanged.
C16_CalibrateCentres ==
    [][/\ Calibrated =>
            IF EyeSamples # <<>>
            THEN eyeTracker'.calibrationData =
                     [centerX |-> MeanOfLast(EyeSamples, 5).x,
                      centerY |-> MeanOfLast(EyeSamples, 5).y]
            ELSE eyeTracker'.calibrationData = eyeTracker.calibrationData
       /\ (/\ SamplePushed /\ frame'.tracker = "EyeTracker"
           /\ SmoothedPoint.x = eyeTracker.calibrationData.centerX
           /\ SmoothedPoint.y = eyeTracker.calibrationData.centerY)
            => frame'.zone = "CENTER"]_vars

C16_Witness ==
    /\ eyeTracker.isCalibrated
    /\ eyeTracker.calibrationData = [centerX |-> 1200, centerY |-> 3000]
    /\ frame.samples = <<Point(1200, 3000), Point(1200, 3000)>>
    /\ frame.previous = "LEFT" /\ frame.zone = "CENTER"
    /\ eyeTracker.currentZone = "CENTER"

InRange(point) == point.x >= 0 /\ point.x <= 6000 /\ point.y >= 0 /\ point.y <= 6000

\* C17: every gaze point pushed into a gaze history and passed on to zone
\* classification has x and y in [0,1], in both pipelines.
C17_PointsInRange ==
    /\ \A i \in DOMAIN frame.samples : InRange(frame.samples[i])
    /\ \A i \in DOMAIN eyeTracker.gazeHistory : InRange(eyeTracker.gazeHistory[i])
    /\ \A i \in DOMAIN coreEyeTracker.gazeHistory : InRange(coreEyeTracker.gazeHistory[i])

\* The samples each tracker has pushed, and the depth of its history.
CoreSamples == IF frame.tracker = "CoreEyeTracker" THEN frame.samples ELSE <<>>
LastOf(samples, depth) ==
    LET n == Len(samples)
        k == IF n < depth THEN n ELSE depth
    IN  SubSeq(samples, n - k + 1, n)

\* C18: a gaze history never holds more than N samples, N being the smoothing
\* depth; it is the last min(n, N) samples pushed, in arrival order, and the
\* smoothed point is their mean.
C18_HistoryIsLastN ==
    /\ Len(eyeTracker.gazeHistory) <= 5
    /\ eyeTracker.gazeHistory = LastOf(EyeSamples, 5)
    /\ EyeSamples # <<>> =>
           getSmoothedGaze(eyeTracker.gazeHistory) = MeanOfLast(EyeSamples, 5)
    /\ Len(coreEyeTracker.gazeHistory) <= coreEyeTracker.config.smoothing
    /\ coreEyeTracker.gazeHistory = LastOf(CoreSamples, coreEyeTracker.config.smoothing)
    /\ CoreSamples # <<>> =>
           coreEyeTracker.smoothedGaze =
               MeanOfLast(CoreSamples, coreEyeTracker.config.smoothing)

C18_Witness ==
    /\ Len(EyeSamples) = 6
    /\ Len(eyeTracker.gazeHistory) = 5
    /\ eyeTracker.gazeHistory[1] = EyeSamples[2]
    /\ eyeTracker.gazeHistory[1] # EyeSamples[1]
    /\ getSmoothedGaze(eyeTracker.gazeHistory) # eyeTracker.gazeHistory[5]

\* A step in which a tracker's onResults handles a frame, and what such a
\* step does when the frame is ignored: no gaze state changes and nothing is
\* emitted but the CoreEyeTracker's face signal.
ResultsHandled == FrameHandled /\ frame'.via = "onResults"
FrameIgnored ==
    /\ UNCHANGED <<eyeTracker, gazeEmitted, coreEyeTracker, arbiterVars>>
    /\ frame'.samples = frame.samples /\ frame'.zone = frame.zone
    /\ \/ coreEmitted' = coreEmitted
       \/ /\ Len(coreEmitted') = Len(coreEmitted) + 1
          /\ coreEmitted'[Len(coreEmitted')].callback = "onFaceDetected"
          /\ SubSeq(coreEmitted', 1, Len(coreEmitted)) = coreEmitted

C20_FallbackOnce ==
    (initLog # <<>> /\ \A i \in DOMAIN initLog : ~initLog[i].available) =>
        /\ gazeEmitted = <<GazeEvent("FALLBACK", "NONE", 1000)>>
        /\ \A i \in DOMAIN initLog : ~initLog[i].returned
        /\ eyeTracker.mockMode /\ ~eyeTracker.processing
        /\ eyeTracker.gazeHistory = <<>>

\* ------------------------------------------- claims on failure and shutdown
\* A step in which a voice component emits FALLBACK.
VoiceFallbackEmitted ==
    /\ Len(voiceEmitted') = Len(voiceEmitted) + 1
    /\ voiceEmitted'[Len(voiceEmitted')].action = "FALLBACK"

\* C21: when the voice channel becomes unavailable, the FALLBACK event the
\* voice component emits is delivered to the arbiter and forwarded to the
\* registered handler as showFallbackControls.
C21_VoiceFallbackForwarded ==
    [][(VoiceFallbackEmitted /\ dashboardHandler # Null) =>
        /\ Delivered("voice")
        /\ lastOp'.action = "FALLBACK"
        /\ handlerCalls' = Append(handlerCalls,
               [handler |-> dashboardHandler, name |-> "showFallbackControls"])]_vars

\* A step in which recognition.start() is called.
RecognizerStarted == recognition'.starts # recognition.starts

\* A step in which the recognizer reports not-allowed.
PermissionDenied == ~recognition.denied /\ recognition'.denied

\* C22: after a not-allowed error the Web Speech voice interface is disabled
\* for good: it emits FALLBACK once, and the recognizer is started again only
\* by an explicit startListening(), never by the restart timeouts.
C22_DeniedIsTerminal ==
    [][/\ PermissionDenied =>
            /\ Len(voiceEmitted') = Len(voiceEmitted) + 1
            /\ voiceEmitted'[Len(voiceEmitted')].action = "FALLBACK"
       /\ (recognition.denied /\ RecognizerStarted) =>
            recognition'.by = "startListening"]_vars


\* The interaction systems have been stopped and nothing listens since.
SystemsStopped == lifecycle.stopped /\ \A p \in Providers : ~isListening[p]

\* The CoreEyeTracker has been stopped and has not been started since.
CoreStopped ==
    coreEyeTracker.constructed /\ ~coreEyeTracker.isTracking /\ lifecycle.coreStops > 0

\* C23: stop is idempotent: stopInteractionSystems on systems that are
\* already stopped, and CoreEyeTracker.stop on a tracker that is already
\* stopped, change no state and make no further stop call on the recognizer,
\* the recorder or the camera.
C23_StopIdempotent ==
    [][/\ (SystemsStopped /\ lifecycle'.stopCalls # lifecycle.stopCalls) =>
              UNCHANGED <<isListening, recognition, whisper, media>>
       /\ (CoreStopped /\ lifecycle'.coreStops # lifecycle.coreStops) =>
              UNCHANGED <<coreEyeTracker, media>>]_vars

\* C24: once stopInteractionSystems has returned and the systems have not
\* been started again, no gaze or voice event is delivered to the arbiter,
\* whatever frame, timer, recorder or listener callback runs.
C24_NoEventAfterStop ==
    [][(lifecycle.stopped /\ lifecycle'.stopped /\ lastOp'.seq # lastOp.seq) =>
           lastOp'.type \notin {"gaze", "voice"}]_vars

\* C25: stopping releases the media: once stopInteractionSystems has
\* returned and nothing listens again, no track of the camera stream
\* EyeTracker obtained and none of the microphone stream
\* whisperVoiceInterface obtained is live, and a CoreEyeTracker that has
\* been stopped has no live track attached.
C25_StopReleasesMedia ==
    /\ SystemsStopped => (media.camera = 0 /\ media.microphone = 0)
    /\ CoreStopped => media.core = 0

\* ------------------------------------------------- claims on the keyboard
\* The step is a press of one of the keys EyeTracker's listener maps.
GazeKeyStep == lifecycle'.keys # lifecycle.keys /\ lifecycle'.key \in DOMAIN GazeKeys

\* C26: the keyboard mapper is always available: whether the gaze estimator
\* is not initialized, runs with the camera or is in mock mode, a press of
\* ArrowLeft, ArrowRight, ArrowDown, Enter or Space delivers the action of
\* the key (BACK, NEXT, DASHBOARD, SELECT) to the arbiter.
C26_KeyboardAlwaysAvailable ==
    [][GazeKeyStep =>
           /\ lastOp'.seq # lastOp.seq
           /\ lastOp'.action = GazeKeys[lifecycle'.key].action]_vars

\* The step is a press of a bound key or the use of a manual control.
KeyStep == lifecycle'.keys # lifecycle.keys

\* Some event of the history was accepted within the keyboard window.
RecentlyAccepted ==
    \E i \in DOMAIN interactionHistory :
        now - interactionHistory[i].timestamp < KeyboardWindow

\* C27: every action that comes from a key (the arrow keys, Enter, Space,
\* Ctrl+1..6, triggerAction) is arbitrated as a keyboard event: it reaches
\* the arbiter with type keyboard and the handler is not called for it when
\* an event was accepted within the preceding 500 ms.
C27_KeysArbitratedAsKeyboard ==
    [][KeyStep =>
           /\ (lastOp'.seq # lastOp.seq => lastOp'.type = "keyboard")
           /\ (RecentlyAccepted => handlerCalls' = handlerCalls)]_vars

\* Gaze and voice have both failed: the tracker is in mock mode and, the
\* start being over, no recognizer listens.
ChannelsFailed ==
    /\ eyeTracker.mockMode
    /\ pc = "idle"
    /\ \A p \in Providers : ~isListening[p]

\* C28: the keyboard keeps the system responsive: once gaze and voice have
\* both failed and a handler is registered, a keyboard action that no other
\* keyboard action precedes (so none within 500 ms) is forwarded to the
\* handler at once.
C28_KeyboardStaysResponsive ==
    [][(ChannelsFailed /\ dashboardHandler # Null /\ lifecycle.keys = 0 /\ KeyStep) =>
           Len(handlerCalls') = Len(handlerCalls) + 1]_vars

\* ------------------------------------------- claims on the published table
\* C29: every command of the voiceCommands table, spoken alone, is
\* classified to the action the table lists for it, with the recognizer's
\* confidence.
C29_TableCommandsClassified ==
    Classified =>
        \A i \in DOMAIN voiceCommands :
            recognized.transcript = voiceCommands[i].command =>
                EmittedOnce(voiceCommands[i].action, recognized.confidence)

\* ------------------------------------------------ claims on stop and start
\* The utterance was made after the STOP action had stopped voice commands.
SaidAfterStop ==
    /\ speech.callsBefore > 0
    /\ handlerCalls[speech.callsBefore].name = "stopAction"

\* The user has said "start" and every provider is through with it.
StartSaid ==
    /\ toLowerCase(speech.transcript) = <<"s", "t", "a", "r", "t">>
    /\ \A p \in Providers : speech.stage[p] = "done"

\* C30: after the STOP action has stopped voice commands, saying "start"
\* resumes them: the utterance is classified as START, the handler's
\* startAction is called and the providers listen again.
C30_StartResumesAfterStop ==
    (SaidAfterStop /\ StartSaid) =>
        /\ voiceEmitted # <<>>
        /\ voiceEmitted[Len(voiceEmitted)].action = "START"
        /\ Len(handlerCalls) > speech.callsBefore
        /\ handlerCalls[speech.callsBefore + 1].name = "startAction"
        /\ \E p \in Providers : isListening[p]

\* --------------------------------------------- claims on the mouse simulation
\* The action the instructions advertise for each gesture.
Advertised ==
    [FarLeft |-> "BACK", FarRight |-> "NEXT", FarBottom |-> "DASHBOARD", Centre |-> "SELECT"]

\* The step is a mouse move to the place of the gesture, made when the
\* listener is not throttled and the gesture does not repeat the last one.
GestureMade(g) ==
    /\ eyeTracker'.mouse.moves # eyeTracker.mouse.moves
    /\ Point(eyeTracker'.mouse.x, eyeTracker'.mouse.y) = Gestures[g]
    /\ ~eyeTracker.mouse.emitted \/ now - eyeTracker.mouse.lastEmitTime >= Throttle
    /\ mapZoneToAction(eyeTracker.mouse.lastZone) # Advertised[g]

\* C31: in mouse-simulation mode each of the four advertised gestures emits
\* its action: far left BACK, far right NEXT, far bottom DASHBOARD and the
\* centre SELECT.
C31_GesturesEmit ==
    [][\A g \in DOMAIN Gestures :
           GestureMade(g) =>
               /\ Len(gazeEmitted') = Len(gazeEmitted) + 1
               /\ gazeEmitted'[Len(gazeEmitted')].action = Advertised[g]]_vars

\* ------------------------------------------ claims on zones and the overrides
\* C32: the EyeTracker emits on every transition into a zone other than
\* NONE, a transition being a change of the classified zone between
\* consecutive processed frames: the frame whose zone differs from the
\* previous frame's zone and is not NONE emits one event with the zone's
\* action (so LEFT, NONE, LEFT emits twice), every other frame emits none.
C32_EmitOnTransition ==
    [][(SamplePushed /\ frame'.tracker = "EyeTracker") =>
        IF frame'.zone # "NONE" /\ frame'.zone # frame'.previous
        THEN /\ Len(gazeEmitted') = Len(gazeEmitted) + 1
             /\ gazeEmitted'[Len(gazeEmitted')].zone = frame'.zone
             /\ gazeEmitted'[Len(gazeEmitted')].action = mapZoneToAction(frame'.zone)
        ELSE gazeEmitted' = gazeEmitted]_vars

\* C33: after every processed frame the EyeTracker's current zone, the one
\* getDebugInfo reports, is the classification of the latest smoothed point:
\* NONE when no threshold is exceeded, never the zone of an earlier frame.
C33_CurrentZoneIsLatest ==
    [][(SamplePushed /\ frame'.tracker = "EyeTracker") =>
           eyeTracker'.currentZone = frame'.zone]_vars

\* C34: the read override fires only when "read" is a whole token of the
\* normalized transcript: a transcript in which "read" occurs only inside a
\* longer word is classified by the exact rule and the token rule, or
\* discarded, so "already next" gives NEXT by token match.
C34_ReadWholeToken ==
    (Classified /\ \A i \in DOMAIN Tokens : Tokens[i] # READ) =>
        voiceEmitted =
            IF lookupCommand(Normalized) # Null
            THEN <<VoiceEvent(lookupCommand(Normalized), Normalized, recognized.confidence)>>
            ELSE partialMatch(Normalized, recognized.confidence)

\* ------------------------------------------ claims on the two speech providers
\* What the whisper provider's processCommand emits for the transcript that
\* VoiceInterface.processCommand was handed.
WhisperOutcome == whisperProcessCommand(recognized.transcript, recognized.confidence)

\* C35: for every transcript and confidence, VoiceInterface.processCommand and
\* WhisperVoiceInterface.processCommand emit the same number of events, zero
\* or one, and an emitted event has the same action and the same confidence.
C35_ProvidersAgree ==
    Classified =>
        /\ Len(voiceEmitted) = Len(WhisperOutcome)
        /\ Len(voiceEmitted) <= 1
        /\ \A i \in DOMAIN voiceEmitted :
              /\ voiceEmitted[i].action = WhisperOutcome[i].action
              /\ voiceEmitted[i].confidence = WhisperOutcome[i].confidence

\* A transcript matched by one of its tokens, so that both providers scale
\* the confidence.
C35_Witness ==
    /\ Classified
    /\ Len(voiceEmitted) = 1
    /\ lookupCommand(Normalized) = Null
    /\ ~includes(Normalized, READ)
    /\ WhisperOutcome = voiceEmitted
    /\ voiceEmitted[1].confidence < recognized.confidence

\* ------------------------------------------------ claims on suppressed events
\* The step delivers a GAZE or KEYBOARD event that the arbiter's checks reject.
SuppressedArrives ==
    \/ Delivered("gaze") /\ hasRecentVoiceCommand(interactionHistory, now)
    \/ Delivered("keyboard") /\ hasRecentInteraction(lastInteraction, now, KeyboardWindow)

\* The arbiter holds a suppressed event whose suppression window has elapsed.
WindowElapsed ==
    /\ lastOp.type \in {"gaze", "keyboard"}
    /\ interactionHistory # <<>>
    /\ lastOp.timestamp >= lastInteraction.timestamp
    /\ lastOp.timestamp - lastInteraction.timestamp < KeyboardWindow
    /\ now - lastInteraction.timestamp >= VoiceWindow

\* C36: a suppressed GAZE or KEYBOARD event has no effect: the history and the
\* last event are unchanged, no handler is called and no analytics event is
\* emitted; and it is never dispatched later: outside a delivery nothing is
\* dispatched, and a delivery dispatches at most its own event.
C36_SuppressedHasNoEffect ==
    [][/\ SuppressedArrives => StepSuppresses
       /\ lastOp'.seq = lastOp.seq => StepSuppresses
       /\ ~StepSuppresses =>
              /\ StepAccepts(lastOp'.confidence)
              /\ handlerCalls' \in
                     {handlerCalls,
                      Append(handlerCalls, [handler |-> dashboardHandler,
                                            name |-> actionMap(lastOp'.action)])}]_vars

\* A GAZE or KEYBOARD event was suppressed, its window has since elapsed, and
\* the arbiter still holds only the event that preceded it.
C36_Witness ==
    /\ WindowElapsed
    /\ lastOp.seq = 2
    /\ Len(interactionHistory) = 1
    /\ Len(adaptiveInteraction) = 1
    /\ Len(handlerCalls) <= 1

\* ------------------------------------------------- claims on starting to listen
\* The step is the call of whisperVoiceInterface.startListening() made by
\* startInteractionSystems, and the call resolves true having asked for the
\* microphone.
StartResolvesTrue ==
    /\ pc = "voice" /\ pc' = "idle"
    /\ ~isListening["whisperVoiceInterface"]
    /\ isListening'["whisperVoiceInterface"]

\* The Whisper recorder or the Web Speech fallback of whisperVoiceInterface
\* is capturing.
WhisperCapturing == whisper.recorder = "recording" \/ whisper.webSpeech = "running"

\* C38: whenever whisperVoiceInterface.startListening() resolves true, the
\* Whisper recorder or its Web Speech fallback has been started, also when the
\* model has not finished loading; so after startInteractionSystems() with the
\* microphone granted a speech recognizer is running.
C38_StartedMeansCapturing ==
    [][StartResolvesTrue => WhisperCapturing']_vars

\* ------------------------------------------ claims on stops during a start
\* The pending whisperVoiceInterface.startListening() settles after
\* stopInteractionSystems() has been called.
StoppedStartSettles == pc = "media" /\ pc' = "idle" /\ lifecycle.stopped

\* The pending CoreEyeTracker.start() settles after stop() has been called.
CancelledStartSettles == lifecycle.coreStart = "cancelled" /\ lifecycle'.coreStart = "none"

\* C37: if stop is requested while a start awaits media access, then after
\* the pending start settles whisperVoiceInterface is not listening and the
\* CoreEyeTracker is not tracking: the stop is not overridden by the start
\* issued before it.
C37_StopWinsOverPendingStart ==
    [][/\ StoppedStartSettles =>
              /\ ~isListening'["whisperVoiceInterface"]
              /\ whisper'.recorder # "recording" /\ whisper'.webSpeech # "running"
       /\ CancelledStartSettles =>
              /\ ~coreEyeTracker'.isTracking
              /\ media'.core = 0]_vars

\* ------------------------------------------------ claims on restarting
\* The end event that follows a stop() of the recognizer arrives while
\* voiceInterface is listening.
StoppedRecognizerEnds ==
    /\ recognition.state = "ending" /\ recognition'.state = "idle"
    /\ isListening["voiceInterface"]

\* C39: while voiceInterface listens, a restart triggered by a confident
\* interim result settles: the end event caused by the stop() that
\* restartRecognition issues schedules no further restart, so the recognizer
\* is started once more and then stays running.
C39_RestartSettles ==
    [][StoppedRecognizerEnds =>
          recognition'.restartTimers = recognition.restartTimers]_vars
====
